---- MODULE Spec2Model ----
(***************************************************************************)
(* A model of the aws_lb_listener_rule resource of the provider:           *)
(*   awspresence/resource_aws_lb_listener_rule.go                          *)
(* The ELBv2 service is modelled by the part of its behaviour the resource *)
(* relies on: a listener is an append-only list of rules, every priority   *)
(* is a decimal string or "default", CreateRule rejects a priority outside *)
(* 1..50000 (ValidationError) and a priority already taken                 *)
(* (PriorityInUse), DescribeRules returns the rules page by page.          *)
(***************************************************************************)
EXTENDS Integers, Sequences, FiniteSets, TLC

(***************************************************************************)
(* Bounds of the model.                                                    *)
(***************************************************************************)
NumCreators == 3
PageSize == 2
MaxInitRules == 2
MaxAttempts == 3
MaxEdits == 1
MaxValues == 2
MaxOps == 3

\* The ingress rules of a security group and the security groups a rule
\* refers to.
MaxRules == 2

MaxGroups == 2

MaxPriority == 50000

\* The validation is run on the priorities within Window of 0, of the
\* largest priority and of the priority of the default rule, and on every
\* multiple of Stride between them.
Window == 50

Stride == 101

Creators == 1..NumCreators

(***************************************************************************)
(* The state.  The model has several parts, each with variables of its     *)
(* own; a part's steps leave the other parts' variables alone.             *)
(***************************************************************************)
VARIABLES rules, nextId, cfgPriority, pc, marker, priorities, reqPriority,
          err, d, calls, inUse, created, snap

createVars == <<rules, nextId, cfgPriority, pc, marker, priorities, reqPriority,
                err, d, calls, inUse, created, snap>>

VARIABLES arnInput, edits, derived, listenerArn

arnVars == <<arnInput, edits, derived, listenerArn>>

VARIABLES confMap, hashPc, confHash, elbCondition, expandErr, stateMap,
          stateHash

hashVars == <<confMap, hashPc, confHash, elbCondition, expandErr, stateMap,
              stateHash>>

VARIABLES crudRules, crudNextId, tfConfig, tfState, lastOp, lastErr, lastCalls,
          lastArn, deleteRuleErr, ops

crudVars == <<crudRules, crudNextId, tfConfig, tfState, lastOp, lastErr, lastCalls,
              lastArn, deleteRuleErr, ops>>

VARIABLES priorityValue, priorityErrors, validatePc

validateVars == <<priorityValue, priorityErrors, validatePc>>

VARIABLES sgConfigured, sgOwnerId, sgPc, sgPerms, sgErr, sgFlat

permVars == <<sgConfigured, sgOwnerId, sgPc, sgPerms, sgErr, sgFlat>>

VARIABLES setList, setAdded, setM

setVars == <<setList, setAdded, setM>>

vars == <<createVars, arnVars, hashVars, crudVars, validateVars, permVars, setVars>>

notCreateVars == <<arnVars, hashVars, crudVars, validateVars, permVars, setVars>>

notArnVars == <<createVars, hashVars, crudVars, validateVars, permVars, setVars>>

notHashVars == <<createVars, arnVars, crudVars, validateVars, permVars, setVars>>

notCrudVars == <<createVars, arnVars, hashVars, validateVars, permVars, setVars>>

notValidateVars == <<createVars, arnVars, hashVars, crudVars, permVars, setVars>>

notPermVars == <<createVars, arnVars, hashVars, crudVars, validateVars, setVars>>

notSetVars == <<createVars, arnVars, hashVars, crudVars, validateVars, permVars>>

(***************************************************************************)
(* Strings are sequences of one-character strings; ARNs are sequences of   *)
(* tokens (see the ARN section).                                           *)
(***************************************************************************)
Range(s) == {s[i] : i \in 1..Len(s)}

Digit == <<"0", "1", "2", "3", "4", "5", "6", "7", "8", "9">>

DefaultPriority == <<"d", "e", "f", "a", "u", "l", "t">>

RECURSIVE Itoa(_)
Itoa(n) ==
    IF n < 10 THEN <<Digit[n + 1]>>
    ELSE Itoa(n \div 10) \o <<Digit[(n % 10) + 1]>>

RECURSIVE AtoiDigits(_, _)
AtoiDigits(s, acc) ==
    IF s = <<>> THEN acc
    ELSE AtoiDigits(Tail(s), acc * 10 + (CHOOSE i \in 1..10 : Digit[i] = Head(s)) - 1)

\* strconv.Atoi: the value and whether the conversion failed; 0 on failure.
Atoi(s) ==
    IF s # <<>> /\ \A i \in 1..Len(s) : s[i] \in Range(Digit)
    THEN [val |-> AtoiDigits(s, 0), err |-> FALSE]
    ELSE [val |-> 0, err |-> TRUE]

SetMax(S) == CHOOSE x \in S : \A y \in S : y <= x

Min(a, b) == IF a < b THEN a ELSE b

(***************************************************************************)
(* ARNs.  An ARN is a sequence of tokens; the tokens "arn", ":",           *)
(* "listener", "-rule", "/" and NL (a line feed) are the pieces the        *)
(* regular expression distinguishes, every other token stands for a run of *)
(* ordinary characters.                                                    *)
(***************************************************************************)
NL == "\n"

ListenerArn == <<"arn", ":", "aws", ":", "listener", "/", "app", "/", "lb">>

RuleArn(n) ==
    <<"arn", ":", "aws", ":", "listener", "-rule", "/", "app", "/", "lb", "/", ToString(n)>>

\* ^(arn:.*:listener) ends at token i
MatchesListenerPart_Star(s, i) ==
    /\ i >= 4
    /\ i <= Len(s)
    /\ s[i] = "listener"
    /\ s[i - 1] = ":"
    /\ s[1] = "arn"
    /\ s[2] = ":"
    /\ \A k \in 3..(i - 2) : s[k] # NL

\* ^(arn:.+:listener) ends at token i
MatchesListenerPart(s, i) ==
    /\ i >= 5
    /\ i <= Len(s)
    /\ s[i] = "listener"
    /\ s[i - 1] = ":"
    /\ s[1] = "arn"
    /\ s[2] = ":"
    /\ \A k \in 3..(i - 2) : s[k] # NL

\* The last token t of s at or before position k, 0 when there is none.
RECURSIVE LastIndexOf(_, _, _)
LastIndexOf(s, t, k) ==
    IF k = 0 THEN 0
    ELSE IF s[k] = t THEN k
    ELSE LastIndexOf(s, t, k - 1)

\* -rule(/.+)/[^/]+$ from token i + 1 on, the last "/" of s at j
MatchesRulePart(s, i, j) ==
    /\ i + 1 <= Len(s)
    /\ s[i + 1] = "-rule"
    /\ j >= i + 4
    /\ j < Len(s)
    /\ s[i + 2] = "/"
    /\ \A k \in (i + 3)..(j - 1) : s[k] # NL

\* The first group is greedy: of the ends of the first group with which the
\* whole expression matches, the match takes the last at or before i; 0
\* when there is none.
RECURSIVE GreedySplit(_, _, _)
GreedySplit(s, i, j) ==
    IF i < 1 THEN 0
    ELSE IF MatchesListenerPart(s, i) /\ MatchesRulePart(s, i, j) THEN i
    ELSE GreedySplit(s, i - 1, j)

lbListenerARNFromRuleARN(ruleArn) ==
    LET j == LastIndexOf(ruleArn, "/", Len(ruleArn))  \* /[^/]+$ starts at the last "/"
        i == GreedySplit(ruleArn, j - 4, j)
    IN IF i # 0
       THEN SubSeq(ruleArn, 1, i) \o SubSeq(ruleArn, i + 2, j - 1)
       ELSE <<>>

(***************************************************************************)
(* The ELBv2 service.                                                      *)
(***************************************************************************)
NewRule(n, p) == [arn |-> RuleArn(n), priority |-> Itoa(p)]

\* DescribeRules(ListenerArn, Marker): one page and the marker of the next;
\* marker 0 is the nil marker.
AwsDescribeRulesPage(rs, m) ==
    [Rules |-> SubSeq(rs, m + 1, Min(m + PageSize, Len(rs))),
     NextMarker |-> IF m + PageSize < Len(rs) THEN m + PageSize ELSE 0]

PriorityTaken(rs, p) == \E s \in {Itoa(p)} : \E k \in 1..Len(rs) : rs[k].priority = s

\* CreateRule: the error code ("" for none) and the rule created.
AwsCreateRule(rs, p, n) ==
    IF p < 1 \/ p > MaxPriority THEN [err |-> "ValidationError", Rules |-> <<>>]
    ELSE IF PriorityTaken(rs, p) THEN [err |-> "PriorityInUse", Rules |-> <<>>]
    ELSE [err |-> "", Rules |-> <<NewRule(n, p)>>]

\* DescribeRules(RuleArns = [arn])
AwsDescribeRule(rs, arn) == SelectSeq(rs, LAMBDA r : r.arn = arn)

(***************************************************************************)
(* lbListenerARNFromRuleARN applied to the ARNs of the tests and to the    *)
(* strings a few edits away from them.                                     *)
(*   arnInput     the string given to lbListenerARNFromRuleARN             *)
(*   edits        how many tokens of it were inserted or deleted           *)
(*   derived      whether lbListenerARNFromRuleARN has been applied        *)
(*   listenerArn  what it returned                                         *)
(***************************************************************************)
ArnIdle ==
    /\ arnInput = <<>>
    /\ edits = 0
    /\ derived = FALSE
    /\ listenerArn = <<>>

InitArn ==
    /\ arnInput \in
          {<<"arn", ":", "x", ":", "listener", "-rule", "/", "x", "/", "x">>,
           <<"arn", ":", "x", ":", "listener", "/", "x", "/", "x">>,
           <<"arn", ":", "x", ":", "x", "/", "x", "/", "x">>,
           <<"x", "x", "x">>,
           <<>>,
           <<"arn", ":", "x", ":", "listener", "-rule", "/", "x", ":", "listener", "-rule",
             "/", "x", "/", "x">>,
           RuleArn(1)}
    /\ edits = 0
    /\ derived = FALSE
    /\ listenerArn = <<>>

InsertToken(i, t) ==
    /\ ~derived
    /\ edits < MaxEdits
    /\ arnInput' = SubSeq(arnInput, 1, i) \o <<t>> \o SubSeq(arnInput, i + 1, Len(arnInput))
    /\ edits' = edits + 1
    /\ UNCHANGED <<derived, listenerArn>>
    /\ UNCHANGED notArnVars

DeleteToken(i) ==
    /\ ~derived
    /\ edits < MaxEdits
    /\ arnInput' = SubSeq(arnInput, 1, i - 1) \o SubSeq(arnInput, i + 1, Len(arnInput))
    /\ edits' = edits + 1
    /\ UNCHANGED <<derived, listenerArn>>
    /\ UNCHANGED notArnVars

Derive ==
    /\ ~derived
    /\ derived' = TRUE
    /\ listenerArn' = lbListenerARNFromRuleARN(arnInput)
    /\ UNCHANGED <<arnInput, edits>>
    /\ UNCHANGED notArnVars

(***************************************************************************)
(* hashcode.String: the CRC-32 (IEEE) checksum of the bytes of the string. *)
(* A 32-bit word is the set of the positions of its 1 bits, bit 0 the      *)
(* least significant.                                                      *)
(***************************************************************************)
\* The printable ASCII characters of codes 32 to 95 and of codes 97 to 126.
AsciiFrom32 ==
    <<" ", "!", "\"", "#", "$", "%", "&", "'", "(", ")",
     "*", "+", ",", "-", ".", "/", "0", "1", "2", "3", "4", "5", "6", "7",
     "8", "9", ":", ";", "<", "=", ">", "?", "@", "A", "B", "C", "D", "E",
     "F", "G", "H", "I", "J", "K", "L", "M", "N", "O", "P", "Q", "R", "S",
     "T", "U", "V", "W", "X", "Y", "Z", "[", "\\", "]", "^", "_">>

AsciiFrom97 ==
    <<"a", "b", "c", "d", "e", "f", "g", "h", "i", "j", "k",
     "l", "m", "n", "o", "p", "q", "r", "s", "t", "u", "v", "w", "x", "y",
     "z", "{", "|", "}", "~">>

ByteOf(ch) ==
    IF \E i \in 1..Len(AsciiFrom32) : AsciiFrom32[i] = ch
    THEN 31 + (CHOOSE i \in 1..Len(AsciiFrom32) : AsciiFrom32[i] = ch)
    ELSE 96 + (CHOOSE i \in 1..Len(AsciiFrom97) : AsciiFrom97[i] = ch)

RECURSIVE Pow2(_)
Pow2(k) == IF k = 0 THEN 1 ELSE 2 * Pow2(k - 1)

BitsOf(n, width) == {k \in 0..(width - 1) : (n \div Pow2(k)) % 2 = 1}

Xor(a, b) == {k \in 0..31 : (k \in a) # (k \in b)}

\* crc32.IEEE, 0xedb88320
IEEE == {5, 8, 9, 15, 19, 20, 21, 23, 24, 26, 27, 29, 30, 31}

RECURSIVE CrcBits(_, _)
CrcBits(crc, n) ==
    LET ShiftRight(a) == {k - 1 : k \in a \ {0}}
    IN IF n = 0 THEN crc
       ELSE CrcBits(IF 0 \in crc THEN Xor(ShiftRight(crc), IEEE) ELSE ShiftRight(crc),
                    n - 1)

\* The register after one more byte.
CrcByte[crc \in SUBSET (0..31), b \in 0..255] == CrcBits(Xor(crc, BitsOf(b, 8)), 8)

\* crc32.Update without the final complement, over the bytes of s.
RECURSIVE CrcUpdate(_)
CrcUpdate(s) ==
    IF s = <<>> THEN 0..31
    ELSE CrcByte[CrcUpdate(SubSeq(s, 1, Len(s) - 1)), ByteOf(s[Len(s)])]

\* hashcode.String, int being 64 bits wide: the checksum itself.
hashcodeString(s) == (0..31) \ CrcUpdate(s)

(***************************************************************************)
(* Conditions.  A condition of the schema is a record with the fields of   *)
(* the condition block; a block (a TypeList of MaxItems 1) is a sequence   *)
(* of at most one element, which is Nil when the block holds nothing.      *)
(***************************************************************************)
Nil == [nil |-> TRUE]

HostHeader == <<"h", "o", "s", "t", "-", "h", "e", "a", "d", "e", "r">>

HttpHeader == <<"h", "t", "t", "p", "-", "h", "e", "a", "d", "e", "r">>

HttpRequestMethod ==
    <<"h", "t", "t", "p", "-", "r", "e", "q", "u", "e", "s", "t", "-", "m",
      "e", "t", "h", "o", "d">>

PathPattern == <<"p", "a", "t", "h", "-", "p", "a", "t", "t", "e", "r", "n">>

QueryString == <<"q", "u", "e", "r", "y", "-", "s", "t", "r", "i", "n", "g">>

SourceIp == <<"s", "o", "u", "r", "c", "e", "-", "i", "p">>

Dash == <<"-">>

\* for _, l := range values { fmt.Fprint(&buf, l, "-") }
RECURSIVE PrintValues(_)
PrintValues(values) ==
    IF values = <<>> THEN <<>>
    ELSE Head(values) \o Dash \o PrintValues(Tail(values))

\* fmt.Fprint(&buf, values["key"], "-", values["value"], "-")
RECURSIVE PrintPairs(_)
PrintPairs(pairs) ==
    IF pairs = <<>> THEN <<>>
    ELSE Head(pairs).key \o Dash \o Head(pairs).value \o Dash \o PrintPairs(Tail(pairs))

\* A block that is written only when it is there and not nil.
PrintBlock(block) ==
    IF Len(block) > 0 /\ block[1] # Nil THEN PrintValues(block[1].values) ELSE <<>>

\* host_header and path_pattern without the backwards-compatibility branch.
PrintBlockOrValues_BlockOnly(block, values) == PrintBlock(block)

\* host_header and path_pattern: the block when there is one, the deprecated
\* values otherwise.
PrintBlockOrValues(block, values) ==
    IF Len(block) > 0
    THEN IF block[1] # Nil THEN PrintValues(block[1].values) ELSE <<>>
    ELSE PrintValues(values)

\* The string lbListenerRuleConditionSetHash builds in buf.
ConditionSetHashString(m) ==
    m.field \o Dash
    \o (IF m.field = HostHeader
        THEN PrintBlockOrValues(m.host_header, m.values) ELSE <<>>)
    \o (IF m.field = HttpHeader /\ Len(m.http_header) > 0 /\ m.http_header[1] # Nil
        THEN m.http_header[1].http_header_name \o Dash
             \o PrintValues(m.http_header[1].values)
        ELSE <<>>)
    \o (IF m.field = HttpRequestMethod
        THEN PrintBlock(m.http_request_method) ELSE <<>>)
    \o (IF m.field = PathPattern
        THEN PrintBlockOrValues(m.path_pattern, m.values) ELSE <<>>)
    \o (IF m.field = QueryString /\ Len(m.query_string) > 0 /\ m.query_string[1] # Nil
        THEN PrintPairs(m.query_string[1].values) ELSE <<>>)
    \o (IF m.field = SourceIp
        THEN PrintBlock(m.source_ip) ELSE <<>>)

lbListenerRuleConditionSetHash(m) == hashcodeString(ConditionSetHashString(m))

NoCondition ==
    [Field |-> <<>>, Values |-> <<>>, HostHeaderConfig |-> Nil,
     HttpHeaderConfig |-> Nil, HttpRequestMethodConfig |-> Nil,
     PathPatternConfig |-> Nil, QueryStringConfig |-> Nil, SourceIpConfig |-> Nil]

BlockMustBeSet(block, field) ==
    block \o " must be set when condition field is " \o field

ErrPanic == "panic: interface conversion: interface {} is nil"

\* A pair sent with its Key whatever the key is.
QueryStringKeyValuePair_AlwaysKey(p) == [Key |-> <<p.key>>, Value |-> p.value]

\* The pair lbListenerRuleConditions sends for a pair of query_string: Key
\* is a pointer, <<>> when it is not set.
QueryStringKeyValuePair(p) ==
    [Key |-> IF p.key # <<>> THEN <<p.key>> ELSE <<>>, Value |-> p.value]

\* The body of the loop of lbListenerRuleConditions for one condition: the
\* error ("" for none) and the condition to send.
ExpandCondition(conditionMap) ==
    LET field == conditionMap.field
        cond == [NoCondition EXCEPT !.Field = field]
        values == conditionMap.values
        ok(c) == [err |-> "", condition |-> c]
        fail(e) == [err |-> e, condition |-> NoCondition]
        \* block[0].(map[string]interface{})["values"]
        valuesOf(block) == block[1].values
    IN CASE field = HostHeader ->
              IF Len(conditionMap.host_header) > 0
              THEN IF conditionMap.host_header[1] = Nil THEN fail(ErrPanic)
                   ELSE ok([cond EXCEPT !.HostHeaderConfig =
                                [Values |-> valuesOf(conditionMap.host_header)]])
              ELSE IF Len(values) > 0
              THEN ok([cond EXCEPT !.HostHeaderConfig = [Values |-> values]])
              ELSE fail(BlockMustBeSet("host_header", "host-header"))
         [] field = HttpHeader ->
              IF Len(conditionMap.http_header) = 0
              THEN fail(BlockMustBeSet("http_header", "http-header"))
              ELSE IF conditionMap.http_header[1] = Nil THEN fail(ErrPanic)
              ELSE ok([cond EXCEPT !.HttpHeaderConfig =
                          [HttpHeaderName |-> conditionMap.http_header[1].http_header_name,
                           Values |-> valuesOf(conditionMap.http_header)]])
         [] field = HttpRequestMethod ->
              IF Len(conditionMap.http_request_method) = 0
              THEN fail(BlockMustBeSet("http_request_method", "http-request-method"))
              ELSE IF conditionMap.http_request_method[1] = Nil THEN fail(ErrPanic)
              ELSE ok([cond EXCEPT !.HttpRequestMethodConfig =
                          [Values |-> valuesOf(conditionMap.http_request_method)]])
         [] field = PathPattern ->
              IF Len(conditionMap.path_pattern) > 0
              THEN IF conditionMap.path_pattern[1] = Nil THEN fail(ErrPanic)
                   ELSE ok([cond EXCEPT !.PathPatternConfig =
                                [Values |-> valuesOf(conditionMap.path_pattern)]])
              ELSE IF Len(values) > 0
              THEN ok([cond EXCEPT !.PathPatternConfig = [Values |-> values]])
              ELSE fail(BlockMustBeSet("path_pattern", "path-pattern"))
         [] field = QueryString ->
              IF Len(conditionMap.query_string) = 0
              THEN fail(BlockMustBeSet("query_string", "query-string"))
              ELSE IF conditionMap.query_string[1] = Nil THEN fail(ErrPanic)
              ELSE ok([cond EXCEPT !.QueryStringConfig =
                          [Values |->
                              [k \in 1..Len(valuesOf(conditionMap.query_string)) |->
                                  QueryStringKeyValuePair(
                                      valuesOf(conditionMap.query_string)[k])]]])
         [] field = SourceIp ->
              IF Len(conditionMap.source_ip) = 0
              THEN fail(BlockMustBeSet("source_ip", "source-ip"))
              ELSE IF conditionMap.source_ip[1] = Nil THEN fail(ErrPanic)
              ELSE ok([cond EXCEPT !.SourceIpConfig =
                          [Values |-> valuesOf(conditionMap.source_ip)]])
         [] OTHER -> ok(cond)

\* lbListenerRuleConditions returning the error of the first condition
\* only: a later condition in error is left out of the request.
lbListenerRuleConditions_FirstOnly(conditions) ==
    IF conditions = <<>> THEN [err |-> "", elbConditions |-> <<>>]
    ELSE LET first == ExpandCondition(Head(conditions))
             rest == SelectSeq([k \in 1..(Len(conditions) - 1) |->
                                   ExpandCondition(conditions[k + 1])],
                               LAMBDA e : e.err = "")
         IN IF first.err # "" THEN [err |-> first.err, elbConditions |-> <<>>]
            ELSE [err |-> "",
                  elbConditions |-> <<first.condition>>
                                        \o [k \in 1..Len(rest) |-> rest[k].condition]]

\* lbListenerRuleConditions with the backwards compatibility first: the
\* deprecated values, when there are some, are sent instead of those of the
\* block.
lbListenerRuleConditions_DeprecatedFirst(conditions) ==
    LET expanded == [k \in 1..Len(conditions) |->
                        ExpandCondition(
                            IF conditions[k].values # <<>>
                            THEN [conditions[k] EXCEPT !.host_header = <<>>,
                                                       !.path_pattern = <<>>]
                            ELSE conditions[k])]
        failed == {k \in 1..Len(conditions) : expanded[k].err # ""}
    IN IF failed # {}
       THEN [err |-> expanded[CHOOSE k \in failed : \A j \in failed : k <= j].err,
             elbConditions |-> <<>>]
       ELSE [err |-> "", elbConditions |-> [k \in 1..Len(conditions) |->
                                               expanded[k].condition]]

\* lbListenerRuleConditions: the error ("" for none) and the conditions to
\* send, none when a condition is in error.
RECURSIVE lbListenerRuleConditions(_)
lbListenerRuleConditions(conditions) ==
    IF conditions = <<>> THEN [err |-> "", elbConditions |-> <<>>]
    ELSE LET first == ExpandCondition(Head(conditions))
             rest == lbListenerRuleConditions(Tail(conditions))
         IN IF first.err # "" THEN [err |-> first.err, elbConditions |-> <<>>]
            ELSE IF rest.err # "" THEN rest
            ELSE [err |-> "", elbConditions |-> <<first.condition>> \o rest.elbConditions]

EmptyConditionMap ==
    [field |-> <<>>, values |-> <<>>, host_header |-> <<>>, http_header |-> <<>>,
     http_request_method |-> <<>>, path_pattern |-> <<>>, query_string |-> <<>>,
     source_ip |-> <<>>]

\* A pair as Read stores it: key "" for a pair without Key.
FlattenPair(p) ==
    [key |-> IF p.Key # <<>> THEN p.Key[1] ELSE <<>>, value |-> p.Value]

\* The body of the conditions loop of resourceAwsLbListenerRuleRead.
FlattenCondition(condition) ==
    [field |-> condition.Field,
     values |-> condition.Values,
     host_header |->
        IF condition.HostHeaderConfig # Nil
        THEN <<[values |-> condition.HostHeaderConfig.Values]>> ELSE <<>>,
     http_header |->
        IF condition.HttpHeaderConfig # Nil
        THEN <<[http_header_name |-> condition.HttpHeaderConfig.HttpHeaderName,
                values |-> condition.HttpHeaderConfig.Values]>>
        ELSE <<>>,
     http_request_method |->
        IF condition.HttpRequestMethodConfig # Nil
        THEN <<[values |-> condition.HttpRequestMethodConfig.Values]>> ELSE <<>>,
     path_pattern |->
        IF condition.PathPatternConfig # Nil
        THEN <<[values |-> condition.PathPatternConfig.Values]>> ELSE <<>>,
     query_string |->
        IF condition.QueryStringConfig # Nil
        THEN <<[values |-> [k \in 1..Len(condition.QueryStringConfig.Values) |->
                               FlattenPair(condition.QueryStringConfig.Values[k])]]>>
        ELSE <<>>,
     source_ip |->
        IF condition.SourceIpConfig # Nil
        THEN <<[values |-> condition.SourceIpConfig.Values]>> ELSE <<>>]

(***************************************************************************)
(* One condition on its way from the configuration to the state: the set   *)
(* of the configuration hashes it, Create converts it for CreateRule, Read *)
(* converts what DescribeRules returns and the set of the state hashes     *)
(* that.                                                                   *)
(*   confMap       the condition of the configuration                      *)
(*   hashPc        the step that comes next                                *)
(*   confHash      the hash of confMap, <<>> before it is computed    *)
(*   elbCondition  the condition as ELBv2 holds and returns it             *)
(*   expandErr     the error of lbListenerRuleConditions                   *)
(*   stateMap      the condition Read stored                               *)
(*   stateHash     the hash of stateMap, <<>> before it is computed        *)
(***************************************************************************)
ExampleCom == <<"e", "x", "a", "m", "p", "l", "e", ".", "c", "o", "m">>

ValueStrings == {ExampleCom, <<"/", "s", "t", "a", "t", "i", "c", "/", "*">>}

\* The sequences over S of length n at most.
ListsOf(S, n) == UNION {[1..k -> S] : k \in 0..n}

ValueLists == ListsOf(ValueStrings, MaxValues)

BlocksOf(elems) == {<<>>, <<Nil>>} \cup {<<e>> : e \in elems}

ValuesBlocks == BlocksOf({[values |-> vs] : vs \in ValueLists})

HttpHeaderBlocks ==
    BlocksOf({[http_header_name |-> n, values |-> vs] :
                 n \in {<<"X", "-", "F", "o", "r", "w", "a", "r", "d", "e", "d", "-", "F", "o", "r">>},
                 vs \in ValueLists})

QueryStringBlocks ==
    BlocksOf({[values |-> ps] :
                 ps \in ListsOf([key : {<<>>, <<"k">>}, value : ValueStrings], MaxValues)})

\* The conditions of the configurations: a field, the deprecated values vs
\* and the block of the field.
ConditionMaps ==
    LET ConditionMapsWith(vs) ==
            UNION {
                {[EmptyConditionMap EXCEPT !.field = HostHeader, !.values = vs, !.host_header = b] :
                    b \in ValuesBlocks},
                {[EmptyConditionMap EXCEPT !.field = HttpHeader, !.values = vs, !.http_header = b] :
                    b \in HttpHeaderBlocks},
                {[EmptyConditionMap EXCEPT !.field = HttpRequestMethod, !.values = vs,
                                           !.http_request_method = b] :
                    b \in ValuesBlocks},
                {[EmptyConditionMap EXCEPT !.field = PathPattern, !.values = vs, !.path_pattern = b] :
                    b \in ValuesBlocks},
                {[EmptyConditionMap EXCEPT !.field = QueryString, !.values = vs, !.query_string = b] :
                    b \in QueryStringBlocks},
                {[EmptyConditionMap EXCEPT !.field = SourceIp, !.values = vs, !.source_ip = b] :
                    b \in ValuesBlocks}}
    \* the deprecated values: MaxItems 1
    IN UNION {ConditionMapsWith(vs) : vs \in ListsOf(ValueStrings, 1)}

HashIdle ==
    /\ confMap = EmptyConditionMap
    /\ hashPc = "idle"
    /\ confHash = <<>>
    /\ elbCondition = NoCondition
    /\ expandErr = ""
    /\ stateMap = EmptyConditionMap
    /\ stateHash = <<>>

InitHash ==
    /\ confMap \in ConditionMaps
    /\ hashPc = "config"
    /\ confHash = <<>>
    /\ elbCondition = NoCondition
    /\ expandErr = ""
    /\ stateMap = EmptyConditionMap
    /\ stateHash = <<>>

\* The set of the configuration hashes the condition.
HashConfig ==
    /\ hashPc = "config"
    /\ confHash' = <<lbListenerRuleConditionSetHash(confMap)>>
    /\ hashPc' = "expand"
    /\ UNCHANGED <<confMap, elbCondition, expandErr, stateMap, stateHash>>
    /\ UNCHANGED notHashVars

\* Create: lbListenerRuleConditions succeeds and ELBv2 stores the condition;
\* the Values ELBv2 returns with it are its own choice.
Expand(awsValues) ==
    /\ hashPc = "expand"
    /\ \E out \in {lbListenerRuleConditions(<<confMap>>)} :
          /\ out.err = ""
          /\ elbCondition' = [out.elbConditions[1] EXCEPT !.Values = awsValues]
    /\ hashPc' = "flatten"
    /\ UNCHANGED <<confMap, confHash, expandErr, stateMap, stateHash>>
    /\ UNCHANGED notHashVars

\* Create: lbListenerRuleConditions fails.
ExpandFails ==
    /\ hashPc = "expand"
    /\ \E out \in {lbListenerRuleConditions(<<confMap>>)} :
          /\ out.err # ""
          /\ expandErr' = out.err
    /\ hashPc' = "failed"
    /\ UNCHANGED <<confMap, confHash, elbCondition, stateMap, stateHash>>
    /\ UNCHANGED notHashVars

\* Read stores the condition ELBv2 returns.
Flatten ==
    /\ hashPc = "flatten"
    /\ stateMap' = FlattenCondition(elbCondition)
    /\ hashPc' = "state"
    /\ UNCHANGED <<confMap, confHash, elbCondition, expandErr, stateHash>>
    /\ UNCHANGED notHashVars

\* The set of the state hashes the condition.
HashState ==
    /\ hashPc = "state"
    /\ stateHash' = <<lbListenerRuleConditionSetHash(stateMap)>>
    /\ hashPc' = "done"
    /\ UNCHANGED <<confMap, confHash, elbCondition, expandErr, stateMap>>
    /\ UNCHANGED notHashVars

(***************************************************************************)
(* The condition set of a configuration (schema.TypeSet with the Set       *)
(* function lbListenerRuleConditionSetHash): the conditions are added one  *)
(* after the other, each under the code the Set function returns for it,   *)
(* and a condition whose code the set already holds is not added.          *)
(*   setList   the condition blocks of the configuration, in order         *)
(*   setAdded  how many of them have been added                            *)
(*   setM      the set: one entry of code and item for each code           *)
(***************************************************************************)
SetIdle ==
    /\ setList = <<>>
    /\ setAdded = 0
    /\ setM = {}

\* Two conditions of one field among host-header, http-header and
\* query-string, each with the block of its field; the second one may have a
\* source_ip block as well.  The strings have the separator in them or not.
InitSet ==
    LET Strings == {<<"a">>, <<"a", "-", "a">>}
        \* values is Required
        Lists == ListsOf(Strings, MaxValues) \ {<<>>}
        Pairs == {[key |-> <<"a">>, value |-> <<"a", "-", "a">>],
                  [key |-> <<"a", "-", "a">>, value |-> <<"a">>],
                  [key |-> <<>>, value |-> <<"a">>]}
        Conditions ==
            UNION {
                {[EmptyConditionMap EXCEPT !.field = HostHeader,
                                           !.host_header = <<[values |-> vs]>>] :
                    vs \in Lists},
                {[EmptyConditionMap EXCEPT !.field = HttpHeader,
                                           !.http_header =
                                               <<[http_header_name |-> n, values |-> vs]>>] :
                    n \in Strings, vs \in Lists},
                {[EmptyConditionMap EXCEPT !.field = QueryString,
                                           !.query_string = <<[values |-> ps]>>] :
                    ps \in ListsOf(Pairs, MaxValues) \ {<<>>}}}
        Others == {<<>>, <<[values |-> <<<<"a">>>>]>>}
    IN /\ setList \in {<<p[1], [p[2] EXCEPT !.source_ip = o]>> :
                           p \in {q \in Conditions \X Conditions :
                                     q[1].field = q[2].field},
                           o \in Others}
       /\ setAdded = 0
       /\ setM = {}

\* Set.Add of the next condition of the configuration.
SetAdd ==
    /\ setAdded < Len(setList)
    /\ LET item == setList[setAdded + 1]
           code == lbListenerRuleConditionSetHash(item)
       IN setM' = IF \E e \in setM : e.code = code
                  THEN setM
                  ELSE setM \cup {[code |-> code, item |-> item]}
    /\ setAdded' = setAdded + 1
    /\ UNCHANGED setList
    /\ UNCHANGED notSetVars

(***************************************************************************)
(* Concurrent Creates on one listener (resourceAwsLbListenerRuleCreate).   *)
(*   rules        the listener's rules in ELBv2, in creation order         *)
(*   nextId       the id of the next rule ELBv2 creates                    *)
(*   cfgPriority  the configured priority of each Create, 0 when unset     *)
(*   pc           where each Create stands                                 *)
(*   marker       nextMarker of highestListenerRulePriority                *)
(*   priorities   priorities of highestListenerRulePriority                *)
(*   reqPriority  params.Priority, 0 before it is set                      *)
(*   err          the error Create returned: <<>> or <<prefix, code>>      *)
(*   d            the resource data: id, arn, listener_arn, priority       *)
(*   calls        how many CreateRule calls each Create has made           *)
(*   inUse        how many of them ELBv2 answered with PriorityInUse       *)
(*   created      the RuleArns CreateRule has returned to each Create      *)
(*   snap         the listener's rules when the current attempt began,     *)
(*                until its CreateRule call                                *)
(***************************************************************************)
ErrCreating == "Error creating LB Listener Rule"

InitPriorities == {1, 3}

\* The sequences without repetition over S of length at most n.
RECURSIVE InjSeqs(_, _)
InjSeqs(S, n) ==
    IF n = 0 THEN {<<>>}
    ELSE LET shorter == InjSeqs(S, n - 1)
             longer == {Append(q, x) : q \in shorter, x \in S}
         IN shorter \cup {q \in longer : \A i, j \in 1..Len(q) : q[i] = q[j] => i = j}

\* The listeners a Create may find: the default rule, then up to MaxInitRules
\* rules of distinct priorities.  The Creates are interchangeable, so their
\* configured priorities are taken in ascending order.
InitListeners(P) ==
    {<<[arn |-> RuleArn(0), priority |-> DefaultPriority]>>
        \o [k \in 1..Len(ps) |-> NewRule(k, ps[k])] : ps \in InjSeqs(P, MaxInitRules)}

NoData == [id |-> <<>>, arn |-> <<>>, listener_arn |-> ListenerArn, priority |-> 0]

CreateIdle ==
    /\ rules = <<>>
    /\ nextId = 0
    /\ cfgPriority = <<>>
    /\ pc = <<>>
    /\ marker = <<>>
    /\ priorities = <<>>
    /\ reqPriority = <<>>
    /\ err = <<>>
    /\ d = <<>>
    /\ calls = <<>>
    /\ inUse = <<>>
    /\ created = <<>>
    /\ snap = <<>>

\* d.GetOk("priority"): the zero value counts as unset.
PriorityIsSet(p) == p # 0

\* Create up to its first call of ELBv2: the actions and conditions of the
\* configuration are expanded into params, then the priority is either taken
\* from the configuration, and CreateRule is next, or computed inside
\* resource.Retry, and the first DescribeRules is next.
InitCreate(P, C) ==
    /\ rules \in InitListeners(P)
    /\ nextId = Len(rules)
    /\ cfgPriority \in {f \in [Creators -> C] : \A a, b \in Creators : a < b => f[a] <= f[b]}
    /\ pc = [c \in Creators |-> IF PriorityIsSet(cfgPriority[c]) THEN "create" ELSE "describe"]
    /\ marker = [c \in Creators |-> 0]
    /\ priorities = [c \in Creators |-> <<>>]
    /\ reqPriority = cfgPriority
    /\ err = [c \in Creators |-> <<>>]
    /\ d = [c \in Creators |-> [NoData EXCEPT !.priority = cfgPriority[c]]]
    /\ calls = [c \in Creators |-> 0]
    /\ inUse = [c \in Creators |-> 0]
    /\ created = [c \in Creators |-> <<>>]
    /\ snap = [c \in Creators |-> <<>>]

\* The priorities one page adds: every rule but the default one, converted
\* with strconv.Atoi, the conversion's error dropped.
PagePriorities(page) ==
    LET numbered == SelectSeq(page, LAMBDA r : r.priority # DefaultPriority)
    IN [k \in 1..Len(numbered) |-> Atoi(numbered[k].priority).val]

\* highestListenerRulePriority without its sort.
HighestOf_Unsorted(ps) == IF Len(ps) = 0 THEN 0 ELSE ps[Len(ps)]

\* The end of highestListenerRulePriority: 0 without priorities, else the
\* last of the sorted priorities.
HighestOf(ps) == IF Len(ps) = 0 THEN 0 ELSE SetMax(Range(ps))

\* One DescribeRules call of highestListenerRulePriority that succeeds; the
\* call with the nil marker is the first of its attempt.
DescribePage(c) ==
    /\ pc[c] = "describe"
    /\ LET out == AwsDescribeRulesPage(rules, marker[c])
           ps == priorities[c] \o PagePriorities(out.Rules)
       IN IF out.NextMarker = 0
          THEN /\ reqPriority' = [reqPriority EXCEPT ![c] = HighestOf(ps) + 1]
               /\ pc' = [pc EXCEPT ![c] = "create"]
               /\ priorities' = [priorities EXCEPT ![c] = <<>>]
               /\ marker' = [marker EXCEPT ![c] = 0]
          ELSE /\ marker' = [marker EXCEPT ![c] = out.NextMarker]
               /\ priorities' = [priorities EXCEPT ![c] = ps]
               /\ UNCHANGED <<reqPriority, pc>>
    /\ snap' = [snap EXCEPT ![c] = IF marker[c] = 0 THEN rules ELSE @]
    /\ UNCHANGED <<rules, nextId, cfgPriority, err, d, calls, inUse, created>>
    /\ UNCHANGED notCreateVars

\* A DescribeRules call of highestListenerRulePriority that fails:
\* NonRetryableError.
DescribeFails(c) ==
    /\ pc[c] = "describe"
    /\ pc' = [pc EXCEPT ![c] = "failed"]
    /\ err' = [err EXCEPT ![c] = <<ErrCreating, "InternalFailure">>]
    /\ marker' = [marker EXCEPT ![c] = 0]
    /\ priorities' = [priorities EXCEPT ![c] = <<>>]
    /\ snap' = [snap EXCEPT ![c] = <<>>]
    /\ UNCHANGED <<rules, nextId, cfgPriority, reqPriority, d, calls, inUse, created>>
    /\ UNCHANGED notCreateVars

\* AfterCreateRule with the retry function returning a retryable error after
\* a successful call as well.
AfterCreateRule_RetriesSuccess(set, e) ==
    IF set THEN (IF e = "" THEN "read" ELSE "failed")
    ELSE IF e \in {"", "PriorityInUse"} THEN "retry"
    ELSE "failed"

\* AfterCreateRule with PriorityInUse not retried.
AfterCreateRule_NoRetry(set, e) == IF e = "" THEN "read" ELSE "failed"

\* AfterCreateRule with every error of CreateRule retried inside resource.Retry.
AfterCreateRule_RetriesAll(set, e) ==
    IF e = "" THEN "read"
    ELSE IF set THEN "failed"
    ELSE "retry"

\* AfterCreateRule with the retry also around a configured priority.
AfterCreateRule_RetriesConfigured(set, e) ==
    IF e = "" THEN "read"
    ELSE IF e = "PriorityInUse" THEN "retry"
    ELSE "failed"

\* What follows a CreateRule call that returned error code e ("" for none):
\* with a configured priority every error ends the Create; inside
\* resource.Retry PriorityInUse is retryable and every other error is not.
AfterCreateRule(set, e) ==
    IF e = "" THEN "read"
    ELSE IF set THEN "failed"
    ELSE IF e = "PriorityInUse" THEN "retry"
    ELSE "failed"

\* The priority attribute Read stores for a rule.
ReadPriority(rule) ==
    IF rule.priority = DefaultPriority THEN 99999 ELSE Atoi(rule.priority).val

\* The Read that ends Create, for the attributes the priority allocation is
\* about: arn, listener_arn and priority of the rule DescribeRules returns
\* for the id; the id is cleared when the rule is not found.
ReadBack(data, rs) ==
    LET resp == AwsDescribeRule(rs, data.id) IN
    IF Len(resp) # 1
    THEN [data EXCEPT !.id = <<>>]
    ELSE [data EXCEPT !.arn = resp[1].arn,
                      !.listener_arn = lbListenerARNFromRuleARN(resp[1].arn),
                      !.priority = ReadPriority(resp[1])]

\* One CreateRule call, answered by ELBv2 with `out`, and what Create does
\* with the answer.  After a retryable error resource.Retry runs the function
\* again, unless its deadline has expired: then it returns the error.  After
\* a success Create sets the id and reads the rule back; the Read is taken in
\* the same step, since it reads only the rule just created, which no other
\* Create touches.
CreateRuleAnswered(c, out, expired) ==
    LET next == AfterCreateRule(PriorityIsSet(d[c].priority), out.err)
        to == IF next = "read" THEN "done"
              ELSE IF next = "retry" /\ ~expired THEN "describe"
              ELSE "failed"
        rs == rules \o out.Rules
    IN
    /\ to = "describe" => calls[c] + 1 < MaxAttempts
    /\ calls' = [calls EXCEPT ![c] = @ + 1]
    /\ inUse' = [inUse EXCEPT ![c] = IF out.err = "PriorityInUse" THEN @ + 1 ELSE @]
    /\ pc' = [pc EXCEPT ![c] = to]
    /\ rules' = rs
    /\ nextId' = nextId + Len(out.Rules)
    /\ created' = [created EXCEPT ![c] = @ \o [k \in 1..Len(out.Rules) |-> out.Rules[k].arn]]
    /\ err' = [err EXCEPT ![c] = IF to = "failed" THEN <<ErrCreating, out.err>> ELSE @]
    /\ d' = [d EXCEPT ![c] = IF to = "done"
                             THEN ReadBack([@ EXCEPT !.id = out.Rules[1].arn], rs)
                             ELSE @]
    /\ snap' = [snap EXCEPT ![c] = <<>>]
    /\ UNCHANGED <<cfgPriority, marker, priorities, reqPriority>>
    /\ UNCHANGED notCreateVars

\* A CreateRule call that ELBv2 answers by its rules, before the deadline.
CreateRule(c) ==
    /\ pc[c] = "create"
    /\ \E out \in {AwsCreateRule(rules, reqPriority[c], nextId)} :
           CreateRuleAnswered(c, out, FALSE)

\* A CreateRule call that ELBv2 answers by its rules, the deadline of
\* resource.Retry over when it returns.
CreateRuleAtDeadline(c) ==
    /\ pc[c] = "create"
    /\ ~PriorityIsSet(d[c].priority)
    /\ \E out \in {AwsCreateRule(rules, reqPriority[c], nextId)} :
           CreateRuleAnswered(c, out, TRUE)

\* A CreateRule call ELBv2 fails for a reason of its own.
CreateRuleFails(c) ==
    /\ pc[c] = "create"
    /\ \E out \in {[err |-> "InternalFailure", Rules |-> <<>>]} :
           CreateRuleAnswered(c, out, FALSE)

(***************************************************************************)
(* Actions.  An action of the schema is a record with the attributes of    *)
(* the action block; its blocks are sequences of at most one record.  Of   *)
(* the optional attributes of authenticate_cognito and authenticate_oidc,  *)
(* which are all sent when they are not empty, the record keeps scope.     *)
(***************************************************************************)
EmptyActionMap ==
    [type |-> "", order |-> 0, target_group_arn |-> "", redirect |-> <<>>,
     fixed_response |-> <<>>, authenticate_cognito |-> <<>>,
     authenticate_oidc |-> <<>>]

\* &elbv2.Action{Order: ..., Type: ...}
NoAction ==
    [Type |-> "", Order |-> 0, TargetGroupArn |-> "", RedirectConfig |-> Nil,
     FixedResponseConfig |-> Nil, AuthenticateCognitoConfig |-> Nil,
     AuthenticateOidcConfig |-> Nil]

\* The block of the type of an action.
BlockOfType(actionMap) ==
    CASE actionMap.type = "redirect" -> actionMap.redirect
      [] actionMap.type = "fixed-response" -> actionMap.fixed_response
      [] actionMap.type = "authenticate-cognito" -> actionMap.authenticate_cognito
      [] actionMap.type = "authenticate-oidc" -> actionMap.authenticate_oidc

ErrMustSpecify(type) ==
    LET block == CASE type = "redirect" -> "redirect"
                   [] type = "fixed-response" -> "fixed_response"
                   [] type = "authenticate-cognito" -> "authenticate_cognito"
                   [] type = "authenticate-oidc" -> "authenticate_oidc"
    IN "for actions of type '" \o type \o "', you must specify a '" \o block \o "' block"

\* The configuration the switch on the type gives the action, from the one
\* element of the block of its type.
ActionConfig(actionMap, action) ==
    LET RedirectActionConfig(redirectMap) ==
            [Host |-> redirectMap.host, Path |-> redirectMap.path,
             Port |-> redirectMap.port, Protocol |-> redirectMap.protocol,
             Query |-> redirectMap.query, StatusCode |-> redirectMap.status_code]
        FixedResponseActionConfig(fixedResponseMap) ==
            [ContentType |-> fixedResponseMap.content_type,
             MessageBody |-> fixedResponseMap.message_body,
             StatusCode |-> fixedResponseMap.status_code]
        AuthenticateCognitoActionConfig(authenticateCognitoMap) ==
            [UserPoolArn |-> authenticateCognitoMap.user_pool_arn,
             UserPoolClientId |-> authenticateCognitoMap.user_pool_client_id,
             UserPoolDomain |-> authenticateCognitoMap.user_pool_domain,
             Scope |-> IF authenticateCognitoMap.scope # ""
                       THEN <<authenticateCognitoMap.scope>> ELSE <<>>]
        AuthenticateOidcActionConfig(authenticateOidcMap) ==
            [AuthorizationEndpoint |-> authenticateOidcMap.authorization_endpoint,
             ClientId |-> authenticateOidcMap.client_id,
             ClientSecret |-> authenticateOidcMap.client_secret,
             Issuer |-> authenticateOidcMap.issuer,
             TokenEndpoint |-> authenticateOidcMap.token_endpoint,
             UserInfoEndpoint |-> authenticateOidcMap.user_info_endpoint,
             Scope |-> IF authenticateOidcMap.scope # ""
                       THEN <<authenticateOidcMap.scope>> ELSE <<>>]
    IN CASE actionMap.type = "forward" ->
              [action EXCEPT !.TargetGroupArn = actionMap.target_group_arn]
         [] actionMap.type = "redirect" /\ Len(actionMap.redirect) = 1 ->
              [action EXCEPT !.RedirectConfig = RedirectActionConfig(actionMap.redirect[1])]
         [] actionMap.type = "fixed-response" /\ Len(actionMap.fixed_response) = 1 ->
              [action EXCEPT !.FixedResponseConfig =
                  FixedResponseActionConfig(actionMap.fixed_response[1])]
         [] actionMap.type = "authenticate-cognito"
                /\ Len(actionMap.authenticate_cognito) = 1 ->
              [action EXCEPT !.AuthenticateCognitoConfig =
                  AuthenticateCognitoActionConfig(actionMap.authenticate_cognito[1])]
         [] actionMap.type = "authenticate-oidc" /\ Len(actionMap.authenticate_oidc) = 1 ->
              [action EXCEPT !.AuthenticateOidcConfig =
                  AuthenticateOidcActionConfig(actionMap.authenticate_oidc[1])]
         [] OTHER -> action

\* The switch on the type without its else branches: a block that is not
\* there is no error and leaves the action without configuration.
ExpandTyped_NoBlockNoError(actionMap, action) ==
    [err |-> "", action |-> ActionConfig(actionMap, action)]

\* The switch on the type of the action: the configuration of the type is
\* taken from its block, and a block list that has not one element is an
\* error.
ExpandTyped(actionMap, action) ==
    IF actionMap.type \in {"redirect", "fixed-response", "authenticate-cognito",
                           "authenticate-oidc"}
       /\ Len(BlockOfType(actionMap)) # 1
    THEN [err |-> ErrMustSpecify(actionMap.type), action |-> NoAction]
    ELSE [err |-> "", action |-> ActionConfig(actionMap, action)]

\* The actions loop without the default of Order: the order attribute as it
\* is, 0 when it is unset.
ExpandActions_NoDefaultOrder(actions, i) ==
    LET expanded == [k \in i..Len(actions) |->
                        ExpandTyped(actions[k],
                            [NoAction EXCEPT !.Type = actions[k].type,
                                             !.Order = actions[k].order])]
        failed == {k \in i..Len(actions) : expanded[k].err # ""}
    IN IF failed # {}
       THEN [err |-> expanded[CHOOSE k \in failed : \A j \in failed : k <= j].err,
             Actions |-> <<>>]
       ELSE [err |-> "", Actions |-> [k \in 1..(Len(actions) - i + 1) |->
                                         expanded[k + i - 1].action]]

\* The actions loop of Create and of Update from position i on; it returns
\* at the first error.
RECURSIVE ExpandActions(_, _)
ExpandActions(actions, i) ==
    IF i > Len(actions) THEN [err |-> "", Actions |-> <<>>]
    ELSE LET actionMap == actions[i]
             \* Order: the position in the list, counted from 1, or the order given
             first == ExpandTyped(actionMap,
                          [NoAction EXCEPT !.Type = actionMap.type,
                                           !.Order = IF actionMap.order # 0
                                                     THEN actionMap.order ELSE i])
             rest == ExpandActions(actions, i + 1)
         IN IF first.err # "" THEN [err |-> first.err, Actions |-> <<>>]
            ELSE IF rest.err # "" THEN rest
            ELSE [err |-> "", Actions |-> <<first.action>> \o rest.Actions]

\* sort.Slice(rule.Actions, ...) by Order; the orders of the actions of a
\* rule are distinct.
RECURSIVE InsertByOrder(_, _)
InsertByOrder(action, sorted) ==
    IF sorted = <<>> THEN <<action>>
    ELSE IF action.Order < Head(sorted).Order THEN <<action>> \o sorted
    ELSE <<Head(sorted)>> \o InsertByOrder(action, Tail(sorted))

\* Read without the sort: the actions as ELBv2 returned them.
SortByOrder_AsReturned(actions) == actions

RECURSIVE SortByOrder(_)
SortByOrder(actions) ==
    IF actions = <<>> THEN <<>>
    ELSE InsertByOrder(actions[Len(actions)],
                       SortByOrder(SubSeq(actions, 1, Len(actions) - 1)))

\* aws.StringValue of a pointer
StringValue(p) == IF p = <<>> THEN "" ELSE p[1]

\* The body of the actions loop of Read for the action at position i.
FlattenAction(action, i, data) ==
    LET actionMap == [EmptyActionMap EXCEPT !.type = action.Type, !.order = action.Order]
        \* d.Get("action.<i>.authenticate_oidc.0.client_secret"), i counted from 1
        clientSecret ==
            IF i <= Len(data.action) /\ Len(data.action[i].authenticate_oidc) > 0
            THEN data.action[i].authenticate_oidc[1].client_secret
            ELSE ""
    IN CASE action.Type = "forward" ->
              [actionMap EXCEPT !.target_group_arn = action.TargetGroupArn]
         [] action.Type = "redirect" ->
              [actionMap EXCEPT !.redirect =
                  <<[host |-> action.RedirectConfig.Host,
                     path |-> action.RedirectConfig.Path,
                     port |-> action.RedirectConfig.Port,
                     protocol |-> action.RedirectConfig.Protocol,
                     query |-> action.RedirectConfig.Query,
                     status_code |-> action.RedirectConfig.StatusCode]>>]
         [] action.Type = "fixed-response" ->
              [actionMap EXCEPT !.fixed_response =
                  <<[content_type |-> action.FixedResponseConfig.ContentType,
                     message_body |-> action.FixedResponseConfig.MessageBody,
                     status_code |-> action.FixedResponseConfig.StatusCode]>>]
         [] action.Type = "authenticate-cognito" ->
              [actionMap EXCEPT !.authenticate_cognito =
                  <<[scope |-> StringValue(action.AuthenticateCognitoConfig.Scope),
                     user_pool_arn |-> action.AuthenticateCognitoConfig.UserPoolArn,
                     user_pool_client_id |-> action.AuthenticateCognitoConfig.UserPoolClientId,
                     user_pool_domain |-> action.AuthenticateCognitoConfig.UserPoolDomain]>>]
         [] action.Type = "authenticate-oidc" ->
              [actionMap EXCEPT !.authenticate_oidc =
                  <<[authorization_endpoint |-> action.AuthenticateOidcConfig.AuthorizationEndpoint,
                     client_id |-> action.AuthenticateOidcConfig.ClientId,
                     client_secret |-> clientSecret,
                     issuer |-> action.AuthenticateOidcConfig.Issuer,
                     scope |-> StringValue(action.AuthenticateOidcConfig.Scope),
                     token_endpoint |-> action.AuthenticateOidcConfig.TokenEndpoint,
                     user_info_endpoint |-> action.AuthenticateOidcConfig.UserInfoEndpoint]>>]
         [] OTHER -> actionMap

FlattenActions(actions, data) ==
    LET sorted == SortByOrder(actions)
    IN [i \in 1..Len(sorted) |-> FlattenAction(sorted[i], i, data)]

(***************************************************************************)
(* The resource data d of a handler and the rules of ELBv2 with their      *)
(* actions and conditions.                                                 *)
(***************************************************************************)
NoState ==
    [id |-> <<>>, arn |-> <<>>, listener_arn |-> <<>>, priority |-> 0,
     action |-> <<>>, condition |-> <<>>]

\* What a handler returns: its error ("" for none), the resource data, the
\* rules of ELBv2, how many rules it created, its API calls in order and the
\* RuleArn of the last rule ELBv2 returned to it.
Returned(e, data, rs, n, apiCalls, ruleArn) ==
    [err |-> e, d |-> data, rules |-> rs, created |-> n, calls |-> apiCalls,
     RuleArn |-> ruleArn]

\* The conditions of a rule as ELBv2 returns them: with Values for the
\* fields host-header and path-pattern.
AwsConditions(conditions) ==
    LET AwsConditionValues(condition) ==
            IF condition.HostHeaderConfig # Nil THEN condition.HostHeaderConfig.Values
            ELSE IF condition.PathPatternConfig # Nil
            THEN condition.PathPatternConfig.Values
            ELSE <<>>
    IN [k \in 1..Len(conditions) |->
           [conditions[k] EXCEPT !.Values = AwsConditionValues(conditions[k])]]

\* A rule with its actions and conditions.
AwsRule(arn, priority, actions, conditions) ==
    [arn |-> arn, priority |-> priority, Actions |-> actions,
     Conditions |-> AwsConditions(conditions)]

\* The position of the rule of an ARN, 0 when there is none.
RuleIndex(rs, arn) ==
    IF \E k \in 1..Len(rs) : rs[k].arn = arn
    THEN CHOOSE k \in 1..Len(rs) : rs[k].arn = arn
    ELSE 0

\* ModifyRule: Actions and Conditions replace those of the rule when they
\* are given (<<>> stands for not given).
AwsModifyRule(rs, arn, actions, conditions) ==
    LET k == RuleIndex(rs, arn) IN
    IF k = 0 THEN [err |-> "RuleNotFound", rules |-> rs]
    ELSE [err |-> "",
          rules |-> [rs EXCEPT ![k] =
              [@ EXCEPT !.Actions = IF actions # <<>> THEN actions ELSE @,
                        !.Conditions = IF conditions # <<>>
                                       THEN AwsConditions(conditions) ELSE @]]]

\* SetRulePriorities for one rule.
AwsSetRulePriorities(rs, arn, p) ==
    LET k == RuleIndex(rs, arn) IN
    IF k = 0 THEN [err |-> "RuleNotFound", rules |-> rs]
    ELSE IF PriorityTaken(rs, p) THEN [err |-> "PriorityInUse", rules |-> rs]
    ELSE [err |-> "", rules |-> [rs EXCEPT ![k] = [@ EXCEPT !.priority = Itoa(p)]]]

\* DeleteRule
AwsDeleteRule(rs, arn) ==
    IF RuleIndex(rs, arn) = 0 THEN [err |-> "RuleNotFound", rules |-> rs]
    ELSE [err |-> "", rules |-> SelectSeq(rs, LAMBDA r : r.arn # arn)]

\* The condition lists of the configurations: one that can be sent, and
\* those that cannot: a condition of each field that needs its block and has
\* none, alone, after a condition that can be sent, and two of them.
ValidCondition ==
    <<[EmptyConditionMap EXCEPT !.field = HostHeader,
                                !.host_header = <<[values |-> <<ExampleCom>>]>>]>>

InvalidCondition == <<[EmptyConditionMap EXCEPT !.field = HttpHeader]>>

ConfigConditions ==
    {ValidCondition, InvalidCondition}
    \cup {<<[EmptyConditionMap EXCEPT !.field = f]>> :
             f \in {HttpRequestMethod, QueryString, SourceIp}}
    \cup {ValidCondition \o <<[EmptyConditionMap EXCEPT !.field = SourceIp]>>,
          <<[EmptyConditionMap EXCEPT !.field = QueryString],
            [EmptyConditionMap EXCEPT !.field = HttpRequestMethod]>>}

ConditionHashCode ==
    LET ConditionElements ==
            UNION {Range(c) : c \in ConfigConditions}
            \cup UNION {{FlattenCondition(x) :
                              x \in Range(AwsConditions(
                                             lbListenerRuleConditions(c).elbConditions))} :
                           c \in {cc \in ConfigConditions : lbListenerRuleConditions(cc).err = ""}}
    IN [m \in ConditionElements |-> lbListenerRuleConditionSetHash(m)]

(***************************************************************************)
(* The handlers of the resource, each from its call to its return.  fault  *)
(* names the API call that ELBv2 answers with an error of its own in this  *)
(* run of the handler ("" for none): "DescribeRules" and "RuleNotFound"    *)
(* are about the DescribeRules call of Read, "DescribeListenerRules" about *)
(* that of highestListenerRulePriority.                                    *)
(***************************************************************************)
\* Read without d.Set("arn", ...): the listener_arn only.
SetArn_ListenerArnOnly(data, rule) ==
    [data EXCEPT !.listener_arn = lbListenerARNFromRuleARN(rule.arn)]

\* d.Set("arn", rule.RuleArn) and d.Set("listener_arn", ...) of Read
SetArn(data, rule) ==
    [data EXCEPT !.arn = rule.arn,
                 !.listener_arn = lbListenerARNFromRuleARN(rule.arn)]

\* resourceAwsLbListenerRuleRead, after the API calls in 'before'.
resourceAwsLbListenerRuleRead(data, rs, fault, before) ==
    LET apiCalls == before \o <<"DescribeRules">>
        resp == IF fault = "RuleNotFound" THEN <<>> ELSE AwsDescribeRule(rs, data.id)
    IN IF fault = "DescribeRules"
       THEN Returned("Error retrieving Rules for listener: InternalFailure",
                     data, rs, 0, apiCalls, <<>>)
       ELSE IF Len(resp) = 0
       THEN Returned("", [data EXCEPT !.id = <<>>], rs, 0, apiCalls, <<>>)
       ELSE IF Len(resp) # 1
       THEN Returned("Error retrieving Rule", data, rs, 0, apiCalls, <<>>)
       ELSE LET rule == resp[1]
                withArn == SetArn(data, rule)
            IN IF rule.priority # DefaultPriority /\ Atoi(rule.priority).err
               THEN Returned("Cannot convert rule priority to int",
                             withArn, rs, 0, apiCalls, rule.arn)
               ELSE Returned("",
                             [withArn EXCEPT
                                 !.priority = ReadPriority(rule),
                                 !.action = FlattenActions(rule.Actions, data),
                                 !.condition = [k \in 1..Len(rule.Conditions) |->
                                                   FlattenCondition(rule.Conditions[k])]],
                             rs, 0, apiCalls, rule.arn)

\* The priorities highestListenerRulePriority collects from the page at
\* marker m on.
RECURSIVE CollectPriorities(_, _)
CollectPriorities(rs, m) ==
    LET out == AwsDescribeRulesPage(rs, m)
    IN PagePriorities(out.Rules)
       \o (IF out.NextMarker = 0 THEN <<>> ELSE CollectPriorities(rs, out.NextMarker))

\* The DescribeRules calls of highestListenerRulePriority from marker m on.
RECURSIVE CollectCalls(_, _)
CollectCalls(rs, m) ==
    LET out == AwsDescribeRulesPage(rs, m)
    IN <<"DescribeRules">>
       \o (IF out.NextMarker = 0 THEN <<>> ELSE CollectCalls(rs, out.NextMarker))

highestListenerRulePriority(rs) == HighestOf(CollectPriorities(rs, 0))

\* resourceAwsLbListenerRuleCreate; n is the id ELBv2 gives to the next
\* rule.  Nothing changes the listener while the handler runs, so that an
\* attempt which resource.Retry would repeat fails at every repetition and
\* the handler returns its error.
resourceAwsLbListenerRuleCreate(data, rs, n, fault) ==
    LET expanded == ExpandActions(data.action, 1)
        conds == lbListenerRuleConditions(data.condition)
        set == PriorityIsSet(data.priority)
        p == IF set THEN data.priority ELSE highestListenerRulePriority(rs) + 1
        before == (IF set THEN <<>> ELSE CollectCalls(rs, 0)) \o <<"CreateRule">>
        out == IF fault = "CreateRule"
               THEN [err |-> "InternalFailure", Rules |-> <<>>]
               ELSE AwsCreateRule(rs, p, n)
    IN IF expanded.err # "" THEN Returned(expanded.err, data, rs, 0, <<>>, <<>>)
       ELSE IF conds.err # "" THEN Returned(conds.err, data, rs, 0, <<>>, <<>>)
       ELSE IF ~set /\ fault = "DescribeListenerRules"
       THEN Returned(ErrCreating \o ": InternalFailure", data, rs, 0,
                     <<"DescribeRules">>, <<>>)
       ELSE IF AfterCreateRule(set, out.err) # "read"
       THEN Returned(ErrCreating \o ": " \o out.err, data, rs, 0, before, <<>>)
       ELSE LET rule == AwsRule(out.Rules[1].arn, out.Rules[1].priority,
                                expanded.Actions, conds.elbConditions)
                read == resourceAwsLbListenerRuleRead(
                            [data EXCEPT !.id = rule.arn], rs \o <<rule>>, fault, before)
            IN [read EXCEPT !.created = 1]

\* d.HasChange("condition"): the set of the state and the set of the plan
\* differ in the hash codes of their elements.
ConditionsChanged(old, new) ==
    {ConditionHashCode[old[k]] : k \in 1..Len(old)}
        # {ConditionHashCode[new[k]] : k \in 1..Len(new)}

\* resourceAwsLbListenerRuleUpdate: old is the state, data the state with the
\* changes of the plan.  With d.Partial(true), the attributes a failed Update
\* leaves in the state are those it passed to d.SetPartial.
resourceAwsLbListenerRuleUpdate(old, data, rs, fault) ==
    LET priorityChanged == data.priority # old.priority
        prio == IF fault = "SetRulePriorities"
                THEN [err |-> "InternalFailure", rules |-> rs]
                ELSE AwsSetRulePriorities(rs, data.id, data.priority)
        rs1 == IF priorityChanged THEN prio.rules ELSE rs
        calls1 == IF priorityChanged THEN <<"SetRulePriorities">> ELSE <<>>
        partial1 == IF priorityChanged THEN [old EXCEPT !.priority = data.priority] ELSE old
        actionChanged == data.action # old.action
        expanded == ExpandActions(data.action, 1)
        partial2 == IF actionChanged THEN [partial1 EXCEPT !.action = data.action]
                    ELSE partial1
        conditionChanged == ConditionsChanged(old.condition, data.condition)
        conds == lbListenerRuleConditions(data.condition)
        partial3 == IF conditionChanged THEN [partial2 EXCEPT !.condition = data.condition]
                    ELSE partial2
        requestUpdate == actionChanged \/ conditionChanged
        calls2 == IF requestUpdate THEN calls1 \o <<"ModifyRule">> ELSE calls1
        modified == IF fault = "ModifyRule"
                    THEN [err |-> "InternalFailure", rules |-> rs1]
                    ELSE AwsModifyRule(rs1, data.id,
                                       IF actionChanged THEN expanded.Actions ELSE <<>>,
                                       IF conditionChanged THEN conds.elbConditions ELSE <<>>)
    IN IF priorityChanged /\ prio.err # ""
       THEN Returned(prio.err, old, rs, 0, calls1, <<>>)
       ELSE IF actionChanged /\ expanded.err # ""
       THEN Returned(expanded.err, partial1, rs1, 0, calls1, <<>>)
       ELSE IF conditionChanged /\ conds.err # ""
       THEN Returned(conds.err, partial2, rs1, 0, calls1, <<>>)
       ELSE IF requestUpdate /\ modified.err # ""
       THEN Returned("Error modifying LB Listener Rule: " \o modified.err,
                     partial3, rs1, 0, calls2, <<>>)
       ELSE resourceAwsLbListenerRuleRead(
                data, IF requestUpdate THEN modified.rules ELSE rs1, fault, calls2)

\* What ELBv2 answers to the DeleteRule call of Delete.
DeleteRuleAnswer(rs, arn, fault) ==
    IF fault = "DeleteRule"
    THEN [err |-> "InternalFailure", rules |-> rs]
    ELSE AwsDeleteRule(rs, arn)

\* Delete with no tolerance: every error of DeleteRule is returned.
resourceAwsLbListenerRuleDelete_NotTolerant(data, rs, fault) ==
    LET out == DeleteRuleAnswer(rs, data.id, fault)
    IN IF out.err # ""
       THEN Returned("Error deleting LB Listener Rule: " \o out.err,
                     data, rs, 0, <<"DeleteRule">>, <<>>)
       ELSE Returned("", data, out.rules, 0, <<"DeleteRule">>, <<>>)

\* resourceAwsLbListenerRuleDelete
resourceAwsLbListenerRuleDelete(data, rs, fault) ==
    LET out == DeleteRuleAnswer(rs, data.id, fault)
    IN IF out.err # "" /\ out.err # "RuleNotFound"
       THEN Returned("Error deleting LB Listener Rule: " \o out.err,
                     data, rs, 0, <<"DeleteRule">>, <<>>)
       ELSE Returned("", data, out.rules, 0, <<"DeleteRule">>, <<>>)

(***************************************************************************)
(* One resource under Terraform: a configuration, the state Terraform      *)
(* keeps of the resource, and the handlers Terraform runs.                 *)
(*   crudRules   the rules of the listener in ELBv2                        *)
(*   crudNextId  the id of the next rule ELBv2 creates                     *)
(*   tfConfig    the configuration of the resource                         *)
(*   tfState     the resource in the state, id <<>> when it is not there   *)
(*   lastOp      the handler that ran last, lastErr the error it returned, *)
(*               lastCalls its API calls, lastArn the RuleArn of the rule  *)
(*               ELBv2 returned to it                                      *)
(*   deleteRuleErr  the error ELBv2 answered to the DeleteRule call of the *)
(*               last Delete, "" for none                                  *)
(*   ops         how many steps were taken                                 *)
(***************************************************************************)
ForwardAction == [EmptyActionMap EXCEPT !.type = "forward", !.target_group_arn = "tg"]

\* An action of a type with its block, or without it.
TypedAction(type, withBlock) ==
    LET actionMap == [EmptyActionMap EXCEPT !.type = type] IN
    IF ~withBlock THEN actionMap
    ELSE CASE type = "redirect" ->
                [actionMap EXCEPT !.redirect =
                    <<[host |-> "#{host}", path |-> "/#{path}", port |-> "443",
                       protocol |-> "HTTPS", query |-> "#{query}",
                       status_code |-> "HTTP_301"]>>]
           [] type = "fixed-response" ->
                [actionMap EXCEPT !.fixed_response =
                    <<[content_type |-> "text/plain", message_body |-> "Fixed",
                       status_code |-> "200"]>>]
           [] type = "authenticate-cognito" ->
                [actionMap EXCEPT !.authenticate_cognito =
                    <<[scope |-> "openid", user_pool_arn |-> "pool",
                       user_pool_client_id |-> "client",
                       user_pool_domain |-> "domain"]>>]
           [] type = "authenticate-oidc" ->
                [actionMap EXCEPT !.authenticate_oidc =
                    <<[authorization_endpoint |-> "https://example.com/a",
                       client_id |-> "client", client_secret |-> "secret",
                       issuer |-> "https://example.com", scope |-> "openid",
                       token_endpoint |-> "https://example.com/t",
                       user_info_endpoint |-> "https://example.com/u"]>>]

\* The action lists of the configurations: one action of each type, an
\* authentication before a forward, explicit orders, each of them with a
\* block left out, and a forward without target_group_arn.
ConfigActions ==
    {<<ForwardAction>>, <<[ForwardAction EXCEPT !.target_group_arn = ""]>>}
    \cup {<<TypedAction(t, b)>> : t \in {"redirect", "fixed-response"}, b \in BOOLEAN}
    \cup {<<TypedAction(t, b), ForwardAction>> :
             t \in {"authenticate-cognito", "authenticate-oidc"}, b \in BOOLEAN}
    \cup {<<TypedAction("redirect", FALSE), TypedAction("fixed-response", FALSE)>>,
          <<[ForwardAction EXCEPT !.order = 2],
            [TypedAction("authenticate-cognito", TRUE) EXCEPT !.order = 1]>>,
          <<[ForwardAction EXCEPT !.order = 2],
            [TypedAction("authenticate-oidc", TRUE) EXCEPT !.order = 1]>>}

\* The configurations: each action list, each condition list and each
\* priority (unset, or a priority no other rule has), and one whose actions
\* and conditions are both in error.
BaseConfig == [priority |-> 0, action |-> <<ForwardAction>>, condition |-> ValidCondition]

Configs ==
    {[BaseConfig EXCEPT !.action = a] : a \in ConfigActions}
    \cup {[BaseConfig EXCEPT !.condition = c] : c \in ConfigConditions}
    \cup {[BaseConfig EXCEPT !.priority = p] : p \in {0, 7}}
    \cup {[BaseConfig EXCEPT !.action = <<TypedAction("redirect", FALSE)>>,
                             !.condition = InvalidCondition]}

\* What d.Get gives for an action of the plan: the configured action, with
\* the order of the state when none is configured (order is Computed) and
\* with the state's attributes of other action types (their differences are
\* suppressed).
PlannedAction(cfg, prior) ==
    [type |-> cfg.type,
     order |-> IF cfg.order # 0 THEN cfg.order ELSE prior.order,
     target_group_arn |->
        IF cfg.type = "forward" THEN cfg.target_group_arn ELSE prior.target_group_arn,
     redirect |-> IF cfg.type = "redirect" THEN cfg.redirect ELSE prior.redirect,
     fixed_response |->
        IF cfg.type = "fixed-response" THEN cfg.fixed_response ELSE prior.fixed_response,
     authenticate_cognito |->
        IF cfg.type = "authenticate-cognito"
        THEN cfg.authenticate_cognito ELSE prior.authenticate_cognito,
     authenticate_oidc |->
        IF cfg.type = "authenticate-oidc"
        THEN cfg.authenticate_oidc ELSE prior.authenticate_oidc]

\* The resource data of a handler: the state with the changes of the plan.
PlannedData(old, config) ==
    [old EXCEPT
        !.priority = IF config.priority # 0 THEN config.priority ELSE @,
        !.action = [i \in 1..Len(config.action) |->
                       PlannedAction(config.action[i],
                                     IF i <= Len(old.action) THEN old.action[i]
                                     ELSE EmptyActionMap)],
        !.condition = IF ConditionsChanged(old.condition, config.condition)
                      THEN config.condition ELSE @]

\* What Terraform keeps of a resource whose id is not set: nothing.
Kept(data) == IF data.id = <<>> THEN NoState ELSE data

CrudIdle ==
    /\ crudRules = <<>>
    /\ crudNextId = 0
    /\ tfConfig = [priority |-> 0, action |-> <<>>, condition |-> <<>>]
    /\ tfState = NoState
    /\ lastOp = ""
    /\ lastErr = ""
    /\ lastCalls = <<>>
    /\ lastArn = <<>>
    /\ deleteRuleErr = ""
    /\ ops = 0

InitCrud ==
    /\ crudRules = <<AwsRule(RuleArn(0), DefaultPriority,
                             ExpandActions(<<ForwardAction>>, 1).Actions, <<>>),
                     AwsRule(RuleArn(1), Itoa(1),
                             ExpandActions(<<ForwardAction>>, 1).Actions, <<>>)>>
    /\ crudNextId = 2
    /\ tfConfig \in Configs
    /\ tfState = NoState
    /\ lastOp = ""
    /\ lastErr = ""
    /\ lastCalls = <<>>
    /\ lastArn = <<>>
    /\ deleteRuleErr = ""
    /\ ops = 0

\* A handler has returned `out`; `kept` is the state Terraform keeps.
HandlerReturns(op, out, kept) ==
    /\ ops < MaxOps
    /\ ops' = ops + 1
    /\ lastOp' = op
    /\ lastErr' = out.err
    /\ lastCalls' = out.calls
    /\ lastArn' = out.RuleArn
    /\ crudRules' = out.rules
    /\ crudNextId' = crudNextId + out.created
    /\ tfState' = kept
    /\ UNCHANGED notCrudVars

\* terraform apply for a resource that is not in the state.
Create(fault) ==
    /\ tfState.id = <<>>
    /\ \E out \in {resourceAwsLbListenerRuleCreate(
                      PlannedData([NoState EXCEPT !.listener_arn = ListenerArn], tfConfig),
                      crudRules, crudNextId, fault)} :
          HandlerReturns("Create", out, Kept(out.d))
    /\ UNCHANGED <<tfConfig, deleteRuleErr>>

\* terraform refresh
Read(fault) ==
    /\ tfState.id # <<>>
    /\ \E out \in {resourceAwsLbListenerRuleRead(tfState, crudRules, fault, <<>>)} :
          HandlerReturns("Read", out, IF out.err # "" THEN tfState ELSE Kept(out.d))
    /\ UNCHANGED <<tfConfig, deleteRuleErr>>

\* terraform import of a rule ARN: the id is the ARN given, and Read follows.
Import(arn) ==
    /\ tfState.id = <<>>
    /\ \E out \in {resourceAwsLbListenerRuleRead([NoState EXCEPT !.id = arn],
                                                 crudRules, "", <<>>)} :
          HandlerReturns("Read", out, IF out.err # "" THEN tfState ELSE Kept(out.d))
    /\ UNCHANGED <<tfConfig, deleteRuleErr>>

\* terraform apply of a configuration that differs from the state in its
\* actions or conditions (a change of priority replaces the resource).
Update(config, fault) ==
    /\ tfState.id # <<>>
    /\ \E data \in {PlannedData(tfState, config)} :
          /\ data # tfState
          /\ data.priority = tfState.priority
          /\ \E out \in {resourceAwsLbListenerRuleUpdate(tfState, data, crudRules, fault)} :
                HandlerReturns("Update", out, IF out.err # "" THEN out.d ELSE Kept(out.d))
    /\ tfConfig' = config
    /\ UNCHANGED deleteRuleErr

\* terraform destroy
Delete(fault) ==
    /\ tfState.id # <<>>
    /\ \E out \in {resourceAwsLbListenerRuleDelete(tfState, crudRules, fault)} :
          HandlerReturns("Delete", out, IF out.err # "" THEN tfState ELSE NoState)
    /\ deleteRuleErr' = DeleteRuleAnswer(crudRules, tfState.id, fault).err
    /\ UNCHANGED tfConfig

\* The rule is deleted by someone else.
RuleDeleted ==
    /\ tfState.id # <<>>
    /\ ops < MaxOps
    /\ RuleIndex(crudRules, tfState.id) # 0
    /\ crudRules' = AwsDeleteRule(crudRules, tfState.id).rules
    /\ ops' = ops + 1
    /\ UNCHANGED <<crudNextId, tfConfig, tfState, lastOp, lastErr, lastCalls, lastArn,
                   deleteRuleErr>>
    /\ UNCHANGED notCrudVars

(***************************************************************************)
(* The validation of the priority attribute, which Terraform runs on the   *)
(* configured value before any handler.                                    *)
(***************************************************************************)
\* validateAwsLbListenerRulePriority without the exception for the default
\* rule.
validateAwsLbListenerRulePriority_NoDefault(v, k) ==
    IF v < 1 \/ v > MaxPriority
    THEN <<"\"" \o k \o "\" must be in the range 1-50000 for normal rule or 99999 for default rule">>
    ELSE <<>>

\* validateAwsLbListenerRulePriority: the errors for value v of attribute k.
validateAwsLbListenerRulePriority(v, k) ==
    IF v < 1 \/ (v > MaxPriority /\ v # 99999)
    THEN <<"\"" \o k \o "\" must be in the range 1-50000 for normal rule or 99999 for default rule">>
    ELSE <<>>

ValidateIdle ==
    /\ priorityValue = 0
    /\ priorityErrors = <<>>
    /\ validatePc = "idle"

\* The configured priorities: from below the range to above the priority of
\* the default rule.
InitValidate ==
    /\ priorityValue \in
            UNION {(p - Window)..(p + Window) : p \in {0, MaxPriority, 99999}}
                \cup {Stride * i : i \in 0..(99999 \div Stride)}
    /\ priorityErrors = <<>>
    /\ validatePc = "input"

\* The schema validates the attribute priority.
Validate ==
    /\ validatePc = "input"
    /\ priorityErrors' = validateAwsLbListenerRulePriority(priorityValue, "priority")
    /\ validatePc' = "validated"
    /\ UNCHANGED priorityValue
    /\ UNCHANGED notValidateVars

(***************************************************************************)
(* The IP permissions of a security group of a VPC: expandIPPerms makes    *)
(* the permissions EC2 takes from the configured rules, and                *)
(* flattenSecurityGroups makes the references of the state from the pairs  *)
(* EC2 returns.  A reference is "G" or "U/G" for the group G of the        *)
(* account U; a pointer to a string is <<>> for nil and <<s>> for s.  The  *)
(* CIDR blocks and the descriptions of a rule are left out.                *)
(*   sgConfigured  the configured rules                                    *)
(*   sgOwnerId     the account of the security group                       *)
(*   sgPc          "input", then "expanded" or "failed", then "flattened"  *)
(*   sgPerms       the permissions expandIPPerms returned, sgErr its error *)
(*   sgFlat        for each permission, what flattenSecurityGroups returned*)
(***************************************************************************)
\* strings.Split(s, "/")
RECURSIVE SplitSlash(_)
SplitSlash(s) ==
    IF \A i \in 1..Len(s) : s[i] # "/" THEN <<s>>
    ELSE LET i == CHOOSE i \in 1..Len(s) :
                      s[i] = "/" /\ \A j \in 1..(i - 1) : s[j] # "/"
         IN <<SubSeq(s, 1, i - 1)>> \o SplitSlash(SubSeq(s, i + 1, Len(s)))

\* expandIPPerms that looks at from_port only for the protocol "-1".
expandIPPerms_FromPortOnly(group, configured) ==
    LET Pair(name) ==
            LET items == SplitSlash(name)
            IN IF Len(items) > 1
               THEN [UserId |-> IF items[1] # <<>> THEN <<items[1]>> ELSE <<>>,
                     GroupId |-> <<items[2]>>]
               ELSE [UserId |-> <<>>, GroupId |-> <<name>>]
        Perm(rule) ==
            LET groups == rule.security_groups
                              \o (IF rule.self THEN <<group.GroupId>> ELSE <<>>)
            IN [IpProtocol |-> rule.protocol, FromPort |-> rule.from_port,
                ToPort |-> rule.to_port,
                UserIdGroupPairs |-> [j \in 1..Len(groups) |-> Pair(groups[j])]]
    IN IF \E k \in 1..Len(configured) :
              configured[k].protocol = "-1" /\ configured[k].from_port # 0
       THEN [err |-> "from_port and to_port must both be 0 to use the 'ALL' \"-1\" protocol!",
             perms |-> <<>>]
       ELSE [err |-> "", perms |-> [k \in 1..Len(configured) |-> Perm(configured[k])]]

\* expandIPPerms for the security group `group` of a VPC: one permission for
\* each configured rule, with a pair for each reference of the rule and one
\* for the group itself when self is set; an error and no permission when a
\* rule of protocol "-1" has a port that is not 0.
expandIPPerms(group, configured) ==
    LET Pair(name) ==
            LET items == SplitSlash(name)
            IN IF Len(items) > 1
               THEN [UserId |-> IF items[1] # <<>> THEN <<items[1]>> ELSE <<>>,
                     GroupId |-> <<items[2]>>]
               ELSE [UserId |-> <<>>, GroupId |-> <<name>>]
        Perm(rule) ==
            LET groups == rule.security_groups
                              \o (IF rule.self THEN <<group.GroupId>> ELSE <<>>)
            IN [IpProtocol |-> rule.protocol, FromPort |-> rule.from_port,
                ToPort |-> rule.to_port,
                UserIdGroupPairs |-> [j \in 1..Len(groups) |-> Pair(groups[j])]]
    IN IF \E k \in 1..Len(configured) :
              /\ configured[k].protocol = "-1"
              /\ (configured[k].from_port # 0 \/ configured[k].to_port # 0)
       THEN [err |-> "from_port and to_port must both be 0 to use the 'ALL' \"-1\" protocol!",
             perms |-> <<>>]
       ELSE [err |-> "", perms |-> [k \in 1..Len(configured) |-> Perm(configured[k])]]

\* flattenSecurityGroups that keeps every UserId, that of the owner too.
flattenSecurityGroups_OwnerToo(list, ownerId) ==
    [j \in 1..Len(list) |->
        [GroupId |-> IF list[j].UserId # <<>>
                     THEN list[j].UserId[1] \o <<"/">> \o list[j].GroupId[1]
                     ELSE list[j].GroupId[1]]]

\* flattenSecurityGroups for the pairs of a permission of a group of a VPC:
\* the GroupId, after the UserId and "/" when the UserId is not that of the
\* owner.
flattenSecurityGroups(list, ownerId) ==
    [j \in 1..Len(list) |->
        [GroupId |-> IF list[j].UserId # <<>> /\ list[j].UserId # ownerId
                     THEN list[j].UserId[1] \o <<"/">> \o list[j].GroupId[1]
                     ELSE list[j].GroupId[1]]]

PermIdle ==
    /\ sgConfigured = <<>>
    /\ sgOwnerId = <<>>
    /\ sgPc = "idle"
    /\ sgPerms = <<>>
    /\ sgErr = ""
    /\ sgFlat = <<>>

\* The rules of the tests: the protocol "-1" with both ports 0 and with a
\* port that is not 0, and icmp; each with or without self; the references
\* of a rule are some of "sg-1", "foo/sg-1" and "bar/sg-1", and the owner is
\* foo or bar.
InitPerm ==
    LET Users == {<<"f", "o", "o">>, <<"b", "a", "r">>}
        Group == <<"s", "g", "-", "1">>
        Refs == {Group} \cup {u \o <<"/">> \o Group : u \in Users}
        RefLists == {l \in ListsOf(Refs, MaxGroups) :
                        \A i, j \in 1..Len(l) : i # j => l[i] # l[j]}
        Ports == {<<"-1", 0, 0>>, <<"-1", 0, 65535>>, <<"-1", 1, 0>>, <<"icmp", 1, -1>>}
        Rules(refs) == {[protocol |-> p[1], from_port |-> p[2], to_port |-> p[3],
                         self |-> s, security_groups |-> refs] :
                            p \in Ports, s \in BOOLEAN}
    IN /\ \E refs \in RefLists :
             sgConfigured \in {l \in ListsOf(Rules(refs), MaxRules) : l # <<>>}
       /\ sgOwnerId \in {<<u>> : u \in Users}
       /\ sgPc = "input"
       /\ sgPerms = <<>>
       /\ sgErr = ""
       /\ sgFlat = <<>>

\* expandIPPerms for the configured rules
ExpandPerms ==
    /\ sgPc = "input"
    /\ LET out == expandIPPerms([GroupId |-> <<"s", "g", "-", "0">>, VpcId |-> <<"v">>],
                                sgConfigured)
       IN /\ sgErr' = out.err
          /\ sgPerms' = out.perms
          /\ sgPc' = IF out.err # "" THEN "failed" ELSE "expanded"
    /\ UNCHANGED <<sgConfigured, sgOwnerId, sgFlat>>
    /\ UNCHANGED notPermVars

\* EC2 returns the pairs of each permission, with the owner as the UserId
\* of those that had none when withOwner is set, and
\* flattenSecurityGroups makes the references of the state.
FlattenGroups(withOwner) ==
    /\ sgPc = "expanded"
    /\ sgFlat' = [k \in 1..Len(sgPerms) |->
                     flattenSecurityGroups(
                         [j \in 1..Len(sgPerms[k].UserIdGroupPairs) |->
                             IF withOwner /\ sgPerms[k].UserIdGroupPairs[j].UserId = <<>>
                             THEN [sgPerms[k].UserIdGroupPairs[j] EXCEPT !.UserId = sgOwnerId]
                             ELSE sgPerms[k].UserIdGroupPairs[j]],
                         sgOwnerId)]
    /\ sgPc' = "flattened"
    /\ UNCHANGED <<sgConfigured, sgOwnerId, sgPerms, sgErr>>
    /\ UNCHANGED notPermVars

(***************************************************************************)
(* The specifications.                                                     *)
(***************************************************************************)
Init == InitCreate(InitPriorities, {0, MaxPriority}) /\ ArnIdle /\ HashIdle /\ CrudIdle /\ ValidateIdle /\ PermIdle /\ SetIdle

Next ==
    \E c \in Creators :
        \/ DescribePage(c)
        \/ DescribeFails(c)
        \/ CreateRule(c)
        \/ CreateRuleAtDeadline(c)
        \/ CreateRuleFails(c)

Spec == Init /\ [][Next]_vars

(***************************************************************************)
(* Creates with priority unset when ELBv2 answers with no error of its     *)
(* own, the deadline of resource.Retry is not reached and the priorities   *)
(* stay low.  Every                                                        *)
(* Create is a goroutine of its own and is scheduled fairly; the model     *)
(* asks for less, that some Create takes a step whenever one can, which    *)
(* the fair scheduling of every goroutine implies (a Create that can take  *)
(* a step can take it until it does).                                      *)
(***************************************************************************)
InitLive == InitCreate(InitPriorities, {0}) /\ ArnIdle /\ HashIdle /\ CrudIdle /\ ValidateIdle /\ PermIdle /\ SetIdle

NextLive ==
    \E c \in Creators :
        \/ DescribePage(c)
        \/ CreateRule(c)

LiveSpec == InitLive /\ [][NextLive]_vars /\ WF_vars(NextLive)

(***************************************************************************)
(* lbListenerARNFromRuleARN on its own.                                    *)
(***************************************************************************)
InitArnSpec == InitArn /\ CreateIdle /\ HashIdle /\ CrudIdle /\ ValidateIdle /\ PermIdle /\ SetIdle

NextArn ==
    \/ \E i \in 0..Len(arnInput), t \in {"arn", ":", "listener", "-rule", "/", "x", NL} :
          InsertToken(i, t)
    \/ \E i \in 1..Len(arnInput) : DeleteToken(i)
    \/ Derive

ArnSpec == InitArnSpec /\ [][NextArn]_vars

(***************************************************************************)
(* The hash of a condition before and after Create and Read.               *)
(***************************************************************************)
InitHashSpec == InitHash /\ CreateIdle /\ ArnIdle /\ CrudIdle /\ ValidateIdle /\ PermIdle /\ SetIdle

NextHash ==
    \/ HashConfig
    \/ \E awsValues \in ValueLists : Expand(awsValues)
    \/ ExpandFails
    \/ Flatten
    \/ HashState

HashSpec == InitHashSpec /\ [][NextHash]_vars

(***************************************************************************)
(* The validation of a configured priority.                                *)
(***************************************************************************)
InitValidateSpec == InitValidate /\ CreateIdle /\ ArnIdle /\ HashIdle /\ CrudIdle /\ PermIdle /\ SetIdle

ValidateSpec == InitValidateSpec /\ [][Validate]_vars

(***************************************************************************)
(* The permissions of a security group, expanded and flattened.            *)
(***************************************************************************)
InitPermSpec ==
    /\ InitPerm
    /\ CreateIdle /\ ArnIdle /\ HashIdle /\ CrudIdle /\ ValidateIdle /\ SetIdle

NextPerm ==
    \/ ExpandPerms
    \/ \E withOwner \in BOOLEAN : FlattenGroups(withOwner)

PermSpec == InitPermSpec /\ [][NextPerm]_vars

InitSetSpec ==
    /\ InitSet
    /\ CreateIdle /\ ArnIdle /\ HashIdle /\ CrudIdle /\ ValidateIdle /\ PermIdle

SetSpec == InitSetSpec /\ [][SetAdd]_vars

(***************************************************************************)
(* One resource and its handlers.                                          *)
(***************************************************************************)
InitCrudSpec == InitCrud /\ CreateIdle /\ ArnIdle /\ HashIdle /\ ValidateIdle /\ PermIdle /\ SetIdle

NextCrud ==
    \/ \E fault \in {"", "DescribeListenerRules", "CreateRule", "DescribeRules",
                     "RuleNotFound"} : Create(fault)
    \/ \E fault \in {"", "DescribeRules"} : Read(fault)
    \* the ARN of a rule of the listener, and of no rule
    \/ \E arn \in {RuleArn(1), RuleArn(9)} : Import(arn)
    \/ \E config \in Configs, fault \in {"", "ModifyRule", "DescribeRules"} :
          Update(config, fault)
    \/ \E fault \in {"", "DeleteRule"} : Delete(fault)
    \/ RuleDeleted

CrudSpec == InitCrudSpec /\ [][NextCrud]_vars

(***************************************************************************)
(* Properties of the priority allocation.                                  *)
(***************************************************************************)
Unset(c) == cfgPriority[c] = 0

NumericPriorities(rs) ==
    {Atoi(rs[k].priority).val : k \in {i \in 1..Len(rs) : rs[i].priority # DefaultPriority}}

HighestNumericPriority(rs) == SetMax(NumericPriorities(rs) \cup {0})

\* C1: a Create with priority unset whose listener did not change while it
\* read the rules requests the highest numeric priority of the listener,
\* over all pages and without the default rule, plus 1; that is 1 when the
\* listener has only its default rule.
C1_RequestsHighestPlusOne ==
    \A c \in Creators :
        (Unset(c) /\ pc[c] = "create" /\ snap[c] = rules) =>
            /\ reqPriority[c] = HighestNumericPriority(rules) + 1
            /\ (NumericPriorities(rules) = {} => reqPriority[c] = 1)

C1_Witness ==
    \E c \in Creators :
        /\ Unset(c) /\ pc[c] = "create" /\ snap[c] = rules
        /\ Len(rules) > PageSize
        /\ Atoi(rules[Len(rules)].priority).val < HighestNumericPriority(rules)
        /\ reqPriority[c] = HighestNumericPriority(rules) + 1

\* C2: the rules of the listener have pairwise distinct priorities and no
\* Create has created more than one rule.
C2_DistinctPriorities ==
    /\ \A i, j \in 1..Len(rules) : rules[i].priority = rules[j].priority => i = j
    /\ \A c \in Creators : Len(created[c]) <= 1

C2_Witness ==
    /\ \A c \in Creators : Unset(c) /\ pc[c] = "done" /\ Len(created[c]) = 1
    /\ \E c \in Creators : inUse[c] >= 1

\* C3: every Create with priority unset eventually completes with its
\* priority set.
C3_EveryUnsetCreateCompletes ==
    <>(\A c \in Creators :
          Unset(c) => /\ pc[c] = "done"
                      /\ err[c] = <<>>
                      /\ d[c].id # <<>>
                      /\ d[c].priority \in 1..MaxPriority)

C3_Witness ==
    /\ \A c \in Creators : Unset(c) /\ pc[c] = "done" /\ d[c].priority \in 1..MaxPriority
    /\ \E c \in Creators : inUse[c] >= 2

\* C4 as stated: a Create issues at most two CreateRule calls.
C4_AtMostTwoCreateRuleCalls == \A c \in Creators : calls[c] <= 2

\* C4 as amended: a Create with priority unset calls CreateRule once more
\* after every PriorityInUse answer and never after another answer: it has
\* made one call for each PriorityInUse answer, and one more when its last
\* call was answered otherwise; a Create with a configured priority calls
\* once.
C4_OneCallPerPriorityInUse ==
    \A c \in Creators :
        /\ calls[c] \in {inUse[c], inUse[c] + 1}
        /\ pc[c] = "done" => calls[c] = inUse[c] + 1
        /\ pc[c] \in {"describe", "create"} => calls[c] = inUse[c]
        /\ ~Unset(c) => calls[c] <= 1

C4_Witness ==
    \E c \in Creators : Unset(c) /\ pc[c] = "done" /\ calls[c] = 3 /\ inUse[c] = 2

\* C5: a CreateRule call with a configured priority that a rule of the
\* listener already has fails the Create with "Error creating LB Listener
\* Rule" (PriorityInUse, unless ELBv2 fails the call for another reason): it
\* is the only call, the priority asked for is the configured one, no rule is
\* created, the id stays unset, and a failed Create does nothing more.
C5_ConfiguredPriorityInUseStep(c) ==
    (/\ ~Unset(c)
     /\ pc[c] = "create"
     /\ PriorityTaken(rules, cfgPriority[c])
     /\ pc'[c] # pc[c])
    => /\ pc'[c] = "failed"
       /\ err'[c] = <<ErrCreating,
                      IF CreateRuleFails(c) THEN "InternalFailure" ELSE "PriorityInUse">>
       /\ calls'[c] = 1
       /\ reqPriority[c] = cfgPriority[c]
       /\ rules' = rules
       /\ created'[c] = <<>>
       /\ d'[c].id = <<>>

FailedIsFinal(c) ==
    pc[c] = "failed" =>
        /\ pc'[c] = "failed"
        /\ calls'[c] = calls[c]
        /\ err'[c] = err[c]
        /\ d'[c] = d[c]

C5_ConfiguredPriorityInUseFails ==
    [][\A c \in Creators : C5_ConfiguredPriorityInUseStep(c) /\ FailedIsFinal(c)]_vars

C5_Witness ==
    \E c \in Creators :
        /\ ~Unset(c)
        /\ pc[c] = "failed"
        /\ err[c] = <<ErrCreating, "PriorityInUse">>
        /\ calls[c] = 1
        /\ d[c].id = <<>>

\* C6: with the highest priority of the listener at 50000 a Create with
\* priority unset asks for 50001; the call fails the Create with "Error
\* creating LB Listener Rule" (ValidationError, unless ELBv2 fails the call
\* for another reason), creates nothing, and the Create does nothing more:
\* no retry and no other priority.
C6_AsksBeyondMaximum ==
    \A c \in Creators :
        /\ (/\ Unset(c) /\ pc[c] = "create" /\ snap[c] = rules
            /\ HighestNumericPriority(rules) = MaxPriority)
           => reqPriority[c] = MaxPriority + 1
        /\ (Unset(c) /\ reqPriority[c] > MaxPriority)
           => /\ pc[c] \in {"create", "failed"}
              /\ created[c] = <<>>
              /\ d[c].id = <<>>

C6_BeyondMaximumStep(c) ==
    (/\ Unset(c)
     /\ pc[c] = "create"
     /\ reqPriority[c] > MaxPriority
     /\ pc'[c] # pc[c])
    => /\ pc'[c] = "failed"
       /\ err'[c] = <<ErrCreating,
                      IF CreateRuleFails(c) THEN "InternalFailure" ELSE "ValidationError">>
       /\ rules' = rules
       /\ reqPriority'[c] = reqPriority[c]

C6_BeyondMaximumFails ==
    /\ []C6_AsksBeyondMaximum
    /\ [][\A c \in Creators : C6_BeyondMaximumStep(c) /\ FailedIsFinal(c)]_vars

C6_Witness ==
    \E c \in Creators :
        /\ Unset(c)
        /\ pc[c] = "failed"
        /\ err[c] = <<ErrCreating, "ValidationError">>
        /\ reqPriority[c] = MaxPriority + 1
        /\ calls[c] = 1
        /\ ~PriorityTaken(rules, 2)

(***************************************************************************)
(* lbListenerARNFromRuleARN (ArnSpec).                                     *)
(* A decomposition of s is a pair <<i, j>>: A is s[1..i], "-rule" is at    *)
(* i + 1, B is s[i+2..j-1], "/" is at j and C is s[j+1..].                  *)
(***************************************************************************)
ArnA(s, i) == SubSeq(s, 1, i)

ArnB(s, i, j) == SubSeq(s, i + 2, j - 1)

\* A starts with "arn:" and ends with ":listener", B is non-empty and starts
\* with "/", C is non-empty and holds no "/".
C7_StatedForm(s) ==
    {ij \in (1..Len(s)) \X (1..Len(s)) :
        LET i == ij[1]
            j == ij[2]
        IN /\ i >= 4 /\ s[1] = "arn" /\ s[2] = ":"
           /\ s[i - 1] = ":" /\ s[i] = "listener"
           /\ i + 1 <= Len(s) /\ s[i + 1] = "-rule"
           /\ j >= i + 3 /\ s[i + 2] = "/"
           /\ s[j] = "/"
           /\ j < Len(s) /\ \A k \in (j + 1)..Len(s) : s[k] # "/"}

\* As C7_StatedForm, and besides: something stands between "arn:" and
\* ":listener", something follows the "/" that B starts with, and neither A
\* nor B holds a line feed.
C7_MatchedForm(s) ==
    {ij \in C7_StatedForm(s) :
        /\ ij[1] >= 5
        /\ ij[2] >= ij[1] + 4
        /\ \A k \in 1..(ij[2] - 1) : s[k] # NL}

\* C7 as stated: for an input of the form A + "-rule" + B + "/" + C the
\* function returns A + B, for every other input it returns "".
C7_ReturnsListenerArnOfStatedForm ==
    derived =>
        IF C7_StatedForm(arnInput) # {}
        THEN \E ij \in C7_StatedForm(arnInput) :
                listenerArn = ArnA(arnInput, ij[1]) \o ArnB(arnInput, ij[1], ij[2])
        ELSE listenerArn = <<>>

\* C7 amended: lbListenerARNFromRuleARN returns A + B exactly for the inputs
\* A + "-rule" + B + "/" + C in which A is "arn:" + X + ":listener" with X
\* non-empty, B is "/" + Y with Y non-empty, neither A nor B holds a line
\* feed and C is non-empty without "/"; when an input has several such
\* forms, A is the longest; for every other input it returns "".
C7_ReturnsListenerArnOfMatchedForm ==
    derived =>
        IF C7_MatchedForm(arnInput) # {}
        THEN \E ij \in C7_MatchedForm(arnInput) :
                /\ \A other \in C7_MatchedForm(arnInput) : other[1] <= ij[1]
                /\ listenerArn = ArnA(arnInput, ij[1]) \o ArnB(arnInput, ij[1], ij[2])
        ELSE listenerArn = <<>>

\* An input of two forms has been converted, and one edit away from the
\* tests' ARNs.
C7_Witness ==
    /\ derived
    /\ edits = 1
    /\ Cardinality(C7_MatchedForm(arnInput)) = 2
    /\ listenerArn # <<>>

(***************************************************************************)
(* lbListenerRuleConditionSetHash (HashSpec).                              *)
(***************************************************************************)
\* The block of the field of a host-header or path-pattern condition.
BlockOfField(m) == IF m.field = HostHeader THEN m.host_header ELSE m.path_pattern

\* C8: for field host-header (resp. path-pattern), a condition with the
\* deprecated values V and no host_header (resp. path_pattern) block has the
\* hash of the condition with a block of values V, whatever the deprecated
\* values of that one are.
C8_MigrationKeepsHash ==
    (/\ hashPc = "done"
     /\ confMap.field \in {HostHeader, PathPattern}
     /\ BlockOfField(confMap) = <<>>
     /\ BlockOfField(stateMap) = <<[values |-> confMap.values]>>)
    => stateHash = confHash

\* The condition of TestAccAWSLBListenerRule_conditionHostHeader_deprecated,
\* of hash 887624213 in the test, with other deprecated values in the state.
C8_Witness ==
    /\ hashPc = "done"
    /\ confMap.field = HostHeader
    /\ confMap.host_header = <<>>
    /\ Len(confMap.values) = 1
    /\ stateMap.host_header = <<[values |-> confMap.values]>>
    /\ stateMap.values # confMap.values
    /\ confHash = <<BitsOf(887624213, 31)>>
    /\ stateHash = confHash

(***************************************************************************)
(* Properties of the handlers.                                             *)
(***************************************************************************)
\* C9: when Create, Read or Update has returned without an error and the
\* resource is in the state, the id of the resource is its arn attribute,
\* and both are the RuleArn of the rule ELBv2 returned to the handler.
C9_IdIsArnIsRuleArn ==
    (lastOp \in {"Create", "Read", "Update"} /\ lastErr = "" /\ tfState.id # <<>>)
        => (tfState.id = tfState.arn /\ tfState.arn = lastArn)

\* An Update that modified the rule has returned without an error, and the
\* resource is in the state under the ARN of the rule Create created.
C9_Witness ==
    /\ lastOp = "Update"
    /\ lastErr = ""
    /\ "ModifyRule" \in Range(lastCalls)
    /\ tfState.id = RuleArn(2)
    /\ tfState.arn = RuleArn(2)
    /\ lastArn = RuleArn(2)

\* The action has one of the four types with a block, and no block of the
\* name of its type.
C10_BlockAbsent(a) ==
    \/ a.type = "redirect" /\ a.redirect = <<>>
    \/ a.type = "fixed-response" /\ a.fixed_response = <<>>
    \/ a.type = "authenticate-cognito" /\ a.authenticate_cognito = <<>>
    \/ a.type = "authenticate-oidc" /\ a.authenticate_oidc = <<>>

C10_Error(a) ==
    CASE a.type = "redirect" ->
            "for actions of type 'redirect', you must specify a 'redirect' block"
      [] a.type = "fixed-response" ->
            "for actions of type 'fixed-response', you must specify a 'fixed_response' block"
      [] a.type = "authenticate-cognito" ->
            "for actions of type 'authenticate-cognito', you must specify a 'authenticate_cognito' block"
      [] a.type = "authenticate-oidc" ->
            "for actions of type 'authenticate-oidc', you must specify a 'authenticate_oidc' block"

\* The first action of the list without its block.
C10_FirstAbsent(actions) ==
    actions[CHOOSE k \in 1..Len(actions) :
                /\ C10_BlockAbsent(actions[k])
                /\ \A j \in 1..(k - 1) : ~C10_BlockAbsent(actions[j])]

\* C10: when an action of the configuration has type redirect,
\* fixed-response, authenticate-cognito or authenticate-oidc and no block of
\* the name of its type, Create and Update return the error "for actions of
\* type '<type>', you must specify a '<block>' block" of the first such
\* action, and have called neither CreateRule nor ModifyRule.
C10_AbsentBlockIsAnError ==
    (/\ lastOp \in {"Create", "Update"}
     /\ \E k \in 1..Len(tfConfig.action) : C10_BlockAbsent(tfConfig.action[k]))
        => /\ lastErr = C10_Error(C10_FirstAbsent(tfConfig.action))
           /\ "CreateRule" \notin Range(lastCalls)
           /\ "ModifyRule" \notin Range(lastCalls)

\* An Update of a rule in the state, to a configuration whose
\* authenticate-oidc action has no block, has returned the error, and the
\* rule is in the state as it was.
C10_Witness ==
    /\ lastOp = "Update"
    /\ tfState.id = RuleArn(2)
    /\ tfConfig.action = <<TypedAction("authenticate-oidc", FALSE), ForwardAction>>
    /\ lastErr = "for actions of type 'authenticate-oidc', you must specify a 'authenticate_oidc' block"
    /\ lastCalls = <<>>

\* An action of type forward with an empty target_group_arn.
C11_NoTargetGroup(a) == a.type = "forward" /\ a.target_group_arn = ""

\* C11: when an action of the configuration has type forward and an empty
\* target_group_arn, Create and Update return an error and have called
\* neither CreateRule nor ModifyRule.
C11_EmptyTargetGroupArnIsAnError ==
    (/\ lastOp \in {"Create", "Update"}
     /\ \E k \in 1..Len(tfConfig.action) : C11_NoTargetGroup(tfConfig.action[k]))
        => /\ lastErr # ""
           /\ "CreateRule" \notin Range(lastCalls)
           /\ "ModifyRule" \notin Range(lastCalls)

\* A condition of a field that needs its block, without the block.
C12_BlockEmpty(c) ==
    \/ c.field = HttpHeader /\ c.http_header = <<>>
    \/ c.field = HttpRequestMethod /\ c.http_request_method = <<>>
    \/ c.field = QueryString /\ c.query_string = <<>>
    \/ c.field = SourceIp /\ c.source_ip = <<>>

C12_Error(c) ==
    CASE c.field = HttpHeader -> "http_header must be set when condition field is http-header"
      [] c.field = HttpRequestMethod ->
            "http_request_method must be set when condition field is http-request-method"
      [] c.field = QueryString ->
            "query_string must be set when condition field is query-string"
      [] c.field = SourceIp -> "source_ip must be set when condition field is source-ip"

\* The first position of the list with such a condition, when the conditions
\* before it can be sent.
C12_FirstEmpty(conditions) ==
    CHOOSE k \in 1..Len(conditions) :
        /\ C12_BlockEmpty(conditions[k])
        /\ \A j \in 1..(k - 1) : ~C12_BlockEmpty(conditions[j])

\* C12: when a condition of field http-header, http-request-method,
\* query-string or source-ip has no block of the name of its field, at
\* whatever position of the list, lbListenerRuleConditions returns no
\* conditions and the error "<block> must be set when condition field is
\* <field>" of the first such condition; a Create whose actions are not in
\* error returns that error and has not called CreateRule.
C12_EmptyBlockIsAnError ==
    (/\ lastOp = "Create"
     /\ \A k \in 1..Len(tfConfig.action) : ~C10_BlockAbsent(tfConfig.action[k])
     /\ \E k \in 1..Len(tfConfig.condition) : C12_BlockEmpty(tfConfig.condition[k]))
        => LET c == tfConfig.condition[C12_FirstEmpty(tfConfig.condition)]
           IN /\ lbListenerRuleConditions(tfConfig.condition)
                     = [err |-> C12_Error(c), elbConditions |-> <<>>]
              /\ lastErr = C12_Error(c)
              /\ "CreateRule" \notin Range(lastCalls)

\* Create has returned the error of a source-ip condition without block that
\* comes second in the list.
C12_Witness ==
    /\ lastOp = "Create"
    /\ Len(tfConfig.condition) = 2
    /\ ~C12_BlockEmpty(tfConfig.condition[1])
    /\ tfConfig.condition[2].field = SourceIp
    /\ tfConfig.condition[2].source_ip = <<>>
    /\ lastErr = "source_ip must be set when condition field is source-ip"
    /\ lastCalls = <<>>

\* The configuration ELBv2 got for the field of a host-header or
\* path-pattern condition.
C13_ConfigOfField(c) ==
    IF c.Field = HostHeader THEN c.HostHeaderConfig ELSE c.PathPatternConfig

C13_Error(m) ==
    IF m.field = HostHeader
    THEN "host_header must be set when condition field is host-header"
    ELSE "path_pattern must be set when condition field is path-pattern"

\* C13: for a condition of field host-header (resp. path-pattern), once
\* lbListenerRuleConditions has returned: when the host_header (resp.
\* path_pattern) block is set, the values sent are those of the block,
\* whatever the deprecated values are; when it is not set and there are
\* deprecated values, the values sent are the deprecated values; when it is
\* not set and there are no deprecated values, the error is "host_header
\* must be set when condition field is host-header" (resp. path_pattern).
C13_BlockBeforeDeprecatedValues ==
    (/\ hashPc \notin {"idle", "config", "expand"}
     /\ confMap.field \in {HostHeader, PathPattern}
     /\ BlockOfField(confMap) # <<Nil>>)
        => LET block == BlockOfField(confMap)
           IN IF block # <<>>
              THEN /\ hashPc # "failed"
                   /\ C13_ConfigOfField(elbCondition) = [Values |-> block[1].values]
              ELSE IF confMap.values # <<>>
              THEN /\ hashPc # "failed"
                   /\ C13_ConfigOfField(elbCondition) = [Values |-> confMap.values]
              ELSE /\ hashPc = "failed"
                   /\ expandErr = C13_Error(confMap)

\* A path-pattern condition with a block and with other deprecated values
\* has been sent with the values of the block.
C13_Witness ==
    /\ hashPc = "flatten"
    /\ confMap.field = PathPattern
    /\ Len(confMap.path_pattern) = 1
    /\ confMap.path_pattern[1] # Nil
    /\ confMap.values # <<>>
    /\ confMap.values # confMap.path_pattern[1].values
    /\ elbCondition.PathPatternConfig = [Values |-> confMap.path_pattern[1].values]

\* C14: validateAwsLbListenerRulePriority accepts the priority p (returns no
\* error) exactly when 1 <= p <= 50000 or p = 99999: 50000 is accepted; 0,
\* 50001 and every value of 50001..99998 are rejected.
C14_AcceptedPriorities ==
    validatePc = "validated"
        => /\ priorityErrors = <<>>
                <=> \/ 1 <= priorityValue /\ priorityValue <= 50000
                    \/ priorityValue = 99999
           /\ priorityValue \in {0} \cup 50001..99998 => Len(priorityErrors) = 1

\* The priority of the default rule has been validated and accepted.
C14_Witness ==
    /\ validatePc = "validated"
    /\ priorityValue = 99999
    /\ priorityErrors = <<>>

\* The Order the claim gives the action at position k, counted from 1, of
\* the actions of the resource data.
C15_Order(actions, k) == IF actions[k].order # 0 THEN actions[k].order ELSE k

\* The orders of the actions of a rule of ELBv2, which are those of the
\* request, are those of the claim for the actions of the resource data.
C15_Sent(rule, actions) ==
    /\ Len(rule.Actions) = Len(actions)
    /\ \A k \in 1..Len(actions) : rule.Actions[k].Order = C15_Order(actions, k)

\* C15: in the request of a Create that created a rule, and of an Update
\* that changed the actions and returned no error, the action at position i
\* (counted from 0) carries Order = i + 1 when its order attribute is unset
\* or 0 and its order attribute otherwise; and when no action of the
\* configuration has an order, the state after a Create that returned no
\* error has action.k.order = k + 1 for every k.
C15_OrderIsPositionOrConfigured ==
    [][/\ (/\ tfState.id = <<>>
           /\ lastOp' = "Create"
           /\ crudNextId' = crudNextId + 1)
              => C15_Sent(crudRules'[Len(crudRules')], tfConfig.action)
       /\ (/\ tfState.id = <<>>
           /\ lastOp' = "Create"
           /\ ops' = ops + 1
           /\ lastErr' = ""
           /\ tfState'.id # <<>>
           /\ \A k \in 1..Len(tfConfig.action) : tfConfig.action[k].order = 0)
              => /\ Len(tfState'.action) = Len(tfConfig.action)
                 /\ \A k \in 1..Len(tfConfig.action) : tfState'.action[k].order = k
       /\ (/\ tfState.id # <<>>
           /\ lastOp' = "Update"
           /\ ops' = ops + 1
           /\ lastErr' = ""
           /\ RuleIndex(crudRules', tfState.id) # 0
           /\ PlannedData(tfState, tfConfig').action # tfState.action)
              => C15_Sent(crudRules'[RuleIndex(crudRules', tfState.id)],
                          PlannedData(tfState, tfConfig').action)
      ]_vars

\* Create has run for an authentication and a forward with no order and
\* the state has the orders 1 and 2.
C15_Witness ==
    /\ lastOp = "Create"
    /\ lastErr = ""
    /\ Len(tfConfig.action) = 2
    /\ \A k \in 1..2 : tfConfig.action[k].order = 0
    /\ tfState.id # <<>>
    /\ Len(tfState.action) = 2
    /\ \A k \in 1..2 : tfState.action[k].order = k

\* d.Get("action.<i>.authenticate_oidc.0.client_secret") for the position k,
\* counted from 1, of the actions of the resource data.
C16_ClientSecret(actions, k) ==
    IF k <= Len(actions) /\ Len(actions[k].authenticate_oidc) > 0
    THEN actions[k].authenticate_oidc[1].client_secret
    ELSE ""

\* C16: Read passes the client secret of OIDC through: after a Read that
\* returned no error, the client_secret of every authenticate-oidc action of
\* the state is the one the resource data held at that position before the
\* Read; and after a Create that returned no error the state holds, for
\* every authenticate-oidc action of the configuration, an
\* authenticate-oidc action with the configured client_secret.
C16_ClientSecretPassedThrough ==
    [][/\ (/\ tfState.id # <<>>
           /\ lastOp' = "Read"
           /\ ops' = ops + 1
           /\ lastErr' = ""
           /\ tfState'.id # <<>>)
              => \A k \in 1..Len(tfState'.action) :
                    tfState'.action[k].type = "authenticate-oidc"
                        => C16_ClientSecret(tfState'.action, k)
                               = C16_ClientSecret(tfState.action, k)
       /\ (/\ tfState.id = <<>>
           /\ lastOp' = "Create"
           /\ ops' = ops + 1
           /\ lastErr' = ""
           /\ tfState'.id # <<>>)
              => \A k \in 1..Len(tfConfig.action) :
                    tfConfig.action[k].type = "authenticate-oidc"
                        => \E j \in 1..Len(tfState'.action) :
                              /\ tfState'.action[j].type = "authenticate-oidc"
                              /\ C16_ClientSecret(tfState'.action, j)
                                     = C16_ClientSecret(tfConfig.action, k)
      ]_vars

\* C17: in a Delete, when it returns no error the rule of the id is no
\* longer among the rules of ELBv2; when DeleteRule fails with RuleNotFound
\* it returns no error; when DeleteRule fails with another error it returns
\* "Error deleting LB Listener Rule" with that error.
C17_DeleteToleratesRuleNotFound ==
    [][(/\ tfState.id # <<>>
        /\ lastOp' = "Delete"
        /\ ops' = ops + 1)
           => /\ lastErr' = "" => RuleIndex(crudRules', tfState.id) = 0
              /\ deleteRuleErr' = "RuleNotFound" => lastErr' = ""
              /\ deleteRuleErr' \notin {"", "RuleNotFound"}
                    => lastErr' = "Error deleting LB Listener Rule: " \o deleteRuleErr'
      ]_vars

\* Delete has run for a rule that was gone and has returned no error.
C17_Witness ==
    /\ lastOp = "Delete"
    /\ deleteRuleErr = "RuleNotFound"
    /\ lastErr = ""
    /\ tfState.id = <<>>

\* A rule of protocol "-1" with a port that is not 0.
C18_AllProtocolWithPort(rule) ==
    rule.protocol = "-1" /\ (rule.from_port # 0 \/ rule.to_port # 0)

\* C18: once expandIPPerms has returned: when a configured rule has the
\* protocol "-1" and a from_port or a to_port that is not 0, it has returned
\* an error and no permissions; when the rules of protocol "-1" all have
\* both ports 0, and there is one, it has returned no error and a
\* permission for each rule.
C18_AllProtocolNeedsPortsZero ==
    sgPc \notin {"idle", "input"}
        => /\ (\E k \in 1..Len(sgConfigured) : C18_AllProtocolWithPort(sgConfigured[k]))
                 => /\ sgPc = "failed"
                    /\ sgErr # ""
                    /\ sgPerms = <<>>
           /\ (/\ \E k \in 1..Len(sgConfigured) : sgConfigured[k].protocol = "-1"
               /\ \A k \in 1..Len(sgConfigured) :
                      ~C18_AllProtocolWithPort(sgConfigured[k]))
                 => /\ sgPc # "failed"
                    /\ sgErr = ""
                    /\ Len(sgPerms) = Len(sgConfigured)
                    /\ \A k \in 1..Len(sgConfigured) :
                          sgConfigured[k].protocol = "-1"
                              => /\ sgPerms[k].IpProtocol = "-1"
                                 /\ sgPerms[k].FromPort = 0
                                 /\ sgPerms[k].ToPort = 0

\* The second of two rules has the protocol "-1" and a to_port that is not
\* 0, and expandIPPerms has returned an error and no permissions.
C18_Witness ==
    /\ sgPc = "failed"
    /\ Len(sgConfigured) = 2
    /\ ~C18_AllProtocolWithPort(sgConfigured[1])
    /\ sgConfigured[2].protocol = "-1"
    /\ sgConfigured[2].from_port = 0
    /\ sgConfigured[2].to_port # 0
    /\ sgPerms = <<>>

\* C19: for a security group of a VPC, expandIPPerms turns the reference
\* "U/G" of a rule into the pair with UserId U and GroupId G and the
\* reference "G" into the pair with GroupId G and no UserId; and
\* flattenSecurityGroups turns what EC2 returns for them into "U/G" when U
\* is not the owner and into "G" when there is no U or U is the owner.
C19_ReferencesRoundTrip ==
    sgPc \in {"expanded", "flattened"}
        => \A k \in 1..Len(sgConfigured) :
              \A j \in 1..Len(sgConfigured[k].security_groups) :
                 LET ref == sgConfigured[k].security_groups[j]
                     parts == SplitSlash(ref)
                     pair == sgPerms[k].UserIdGroupPairs[j]
                 IN /\ Len(parts) = 1
                          => /\ pair = [UserId |-> <<>>, GroupId |-> <<ref>>]
                             /\ sgPc = "flattened" => sgFlat[k][j].GroupId = ref
                    /\ Len(parts) = 2
                          => /\ pair = [UserId |-> <<parts[1]>>, GroupId |-> <<parts[2]>>]
                             /\ sgPc = "flattened"
                                   => sgFlat[k][j].GroupId
                                         = IF <<parts[1]>> # sgOwnerId THEN ref ELSE parts[2]

\* A rule refers to a group of the owner and to a group of another account
\* by "U/G", and the references have been expanded and flattened.
C19_Witness ==
    /\ sgPc = "flattened"
    /\ Len(sgConfigured[1].security_groups) = 2
    /\ \A j \in 1..2 : Len(SplitSlash(sgConfigured[1].security_groups[j])) = 2
    /\ <<SplitSlash(sgConfigured[1].security_groups[1])[1]>> = sgOwnerId
    /\ sgFlat[1][1].GroupId = SplitSlash(sgConfigured[1].security_groups[1])[2]
    /\ sgFlat[1][2].GroupId = sgConfigured[1].security_groups[2]

\* What C20 says of the steps of the Create c besides the retry itself: an
\* error of DescribeRules ends it at once with "Error creating LB Listener
\* Rule", before any CreateRule call of the attempt; so does an error of
\* CreateRule that is not PriorityInUse; a Create that has failed makes no
\* further call; an attempt is retried only after PriorityInUse, and the
\* retry starts by reading the priorities again from the first page, which
\* is the only way to the next CreateRule call.
C20_OtherErrorsEndCreate(c) ==
    /\ (pc[c] = "describe" /\ pc'[c] = "failed")
          => /\ err'[c] = <<ErrCreating, "InternalFailure">>
             /\ calls'[c] = calls[c]
             /\ rules' = rules
    /\ (/\ Unset(c)
        /\ pc[c] = "create"
        /\ calls'[c] = calls[c] + 1
        /\ inUse'[c] = inUse[c]
        /\ created'[c] = created[c])
          => /\ pc'[c] = "failed"
             /\ err'[c][1] = ErrCreating
             /\ err'[c][2] \notin {"", "PriorityInUse"}
             /\ rules' = rules
    /\ FailedIsFinal(c)
    /\ (pc[c] = "create" /\ pc'[c] = "describe")
          => /\ Unset(c)
             /\ inUse'[c] = inUse[c] + 1
             /\ marker'[c] = 0
             /\ priorities'[c] = <<>>
    /\ (pc[c] # "create" /\ pc'[c] = "create") => pc[c] = "describe"

\* C20 as stated: in a Create with priority unset an attempt is retried if
\* and only if its CreateRule call failed with PriorityInUse; every other
\* error ends the Create at once, and a retry computes the highest priority
\* again.
C20_RetriedIffPriorityInUse ==
    [][\A c \in Creators :
          /\ C20_OtherErrorsEndCreate(c)
          /\ (Unset(c) /\ pc[c] = "create" /\ inUse'[c] = inUse[c] + 1)
                => pc'[c] = "describe"
      ]_vars

\* C20 as amended: as stated, but a CreateRule call that failed with
\* PriorityInUse is retried only while the deadline of resource.Retry has
\* not expired; otherwise the Create ends with "Error creating LB Listener
\* Rule" and that error.
C20_RetriedOnlyOnPriorityInUse ==
    [][\A c \in Creators :
          /\ C20_OtherErrorsEndCreate(c)
          /\ (Unset(c) /\ pc[c] = "create" /\ inUse'[c] = inUse[c] + 1)
                => \/ pc'[c] = "describe"
                   \/ /\ pc'[c] = "failed"
                      /\ err'[c] = <<ErrCreating, "PriorityInUse">>
      ]_vars

\* A Create with priority unset is about to read the priorities again after
\* one PriorityInUse answer, and another one has failed on an error of
\* ELBv2 after its only call.
C20_Witness ==
    /\ \E c \in Creators :
          /\ Unset(c)
          /\ pc[c] = "describe"
          /\ calls[c] = 1
          /\ inUse[c] = 1
          /\ marker[c] = 0
          /\ priorities[c] = <<>>
    /\ \E c \in Creators :
          /\ Unset(c)
          /\ pc[c] = "failed"
          /\ calls[c] = 1
          /\ err[c] = <<ErrCreating, "InternalFailure">>

\* C21: after a Create, a Read or an Update whose Read returned no error
\* and left the resource in the state, the actions of the state are in
\* ascending order of their order attribute, also when ELBv2 returned them
\* in another order.
C21_ActionsSortedByOrder ==
    (/\ lastOp \in {"Create", "Read", "Update"}
     /\ lastErr = ""
     /\ tfState.id # <<>>)
        => \A i, j \in 1..Len(tfState.action) :
              i < j => tfState.action[i].order <= tfState.action[j].order

\* Read has returned no error for a rule whose actions ELBv2 holds with the
\* orders 2 and 1, and the state has them with the orders 1 and 2.
C21_Witness ==
    /\ lastOp = "Read"
    /\ lastErr = ""
    /\ tfState.id # <<>>
    /\ RuleIndex(crudRules, tfState.id) # 0
    /\ LET rule == crudRules[RuleIndex(crudRules, tfState.id)]
       IN /\ Len(rule.Actions) = 2
          /\ rule.Actions[1].Order = 2
          /\ rule.Actions[2].Order = 1
    /\ Len(tfState.action) = 2
    /\ tfState.action[1].order = 1
    /\ tfState.action[2].order = 2

\* C22: for a query-string condition, lbListenerRuleConditions sends the
\* pairs of the query_string block in list order, each with its value, a
\* pair of empty key without Key and a pair of non-empty key with that Key;
\* Read stores a pair without Key with the key "", so the pairs of the state
\* are the pairs of the configuration.
C22_QueryStringRoundTrip ==
    (hashPc \in {"flatten", "state", "done"} /\ confMap.field = QueryString)
        => LET pairs == confMap.query_string[1].values
               sent == elbCondition.QueryStringConfig.Values
           IN /\ Len(sent) = Len(pairs)
              /\ \A k \in 1..Len(pairs) :
                    /\ sent[k].Value = pairs[k].value
                    /\ pairs[k].key = <<>> => sent[k].Key = <<>>
                    /\ pairs[k].key # <<>> => sent[k].Key = <<pairs[k].key>>
              /\ hashPc \in {"state", "done"}
                    => /\ Len(stateMap.query_string) = 1
                       /\ stateMap.query_string[1].values = pairs

\* Read has stored a query-string condition of two pairs, the first without
\* a key and the second with the key k, sent without Key and with Key.
C22_Witness ==
    /\ hashPc = "state"
    /\ confMap.field = QueryString
    /\ Len(confMap.query_string[1].values) = 2
    /\ confMap.query_string[1].values[1].key = <<>>
    /\ confMap.query_string[1].values[2].key = <<"k">>
    /\ elbCondition.QueryStringConfig.Values[1].Key = <<>>
    /\ elbCondition.QueryStringConfig.Values[2].Key = << <<"k">> >>
    /\ stateMap.query_string[1].values = confMap.query_string[1].values

(***************************************************************************)
(* The condition set (SetSpec).                                            *)
(***************************************************************************)
\* What a condition of the set means: the block of its field.
C23_Meaning(m) ==
    IF m.field = HostHeader THEN m.host_header
    ELSE IF m.field = HttpHeader THEN m.http_header
    ELSE m.query_string

\* C23: conditions of one field whose values for that field differ (the
\* list of strings, for http-header the header name too, for query-string
\* the list of key and value pairs) have different strings in
\* lbListenerRuleConditionSetHash, so the set holds each of them; and the
\* string of a condition is the one it has without the blocks of the other
\* fields.
C23_HashStringInjective ==
    /\ \A i, j \in 1..setAdded :
          (/\ setList[i].field = setList[j].field
           /\ C23_Meaning(setList[i]) # C23_Meaning(setList[j]))
              => /\ ConditionSetHashString(setList[i]) # ConditionSetHashString(setList[j])
                 /\ \E e \in setM : e.item = setList[i]
                 /\ \E e \in setM : e.item = setList[j]
    /\ \A i \in 1..setAdded :
          ConditionSetHashString(setList[i])
              = ConditionSetHashString([setList[i] EXCEPT !.source_ip = <<>>])

====
